---- MODULE Spec2Model ----
(***************************************************************************)
(* Model of the mail retrieval service: EmailController (validation and   *)
(* dispatch), EmailService (IMAP and POP3 connection handling, fetch,     *)
(* filtering, ordering), the process-wide CacheService and the email      *)
(* part of DataService.  One EmailService instance is shared by every     *)
(* request (routes/index.ts builds one EmailController), so its fields    *)
(* imap, pop3 and currentProtocol are shared state.                       *)
(*                                                                         *)
(* Handlers are written as operators from a state record to a state       *)
(* record, so that a handler that calls disconnect(), cacheService.set()  *)
(* or the catch block of fetchEmails is one atomic step, as it is between *)
(* two awaits of the event loop.                                           *)
(***************************************************************************)
EXTENDS Integers, Sequences, FiniteSets, TLC

(***************************************************************************)
(* Bounds of the model.  Time is counted in ticks; the calendar is scaled *)
(* (a minute has TicksPerMinute ticks, a day MinutesPerDay minutes).      *)
(***************************************************************************)
TicksPerMinute == 2
MinutesPerDay == 2
Days == 2
MaxTicks == 1
MaxMsgs == 2
MaxLimit == 2
MaxDetections == 3
MaxJumps == 1
MaxWait == 4
MaxInvoices == 3
MaxBatch == 2

(***************************************************************************)
(* Program constants.                                                      *)
(***************************************************************************)
DefaultLimit == 10
MinLimit == 1
MaxLimitAllowed == 100
MinPort == 1
MaxPort == 65535
TestOkTtlMinutes == 5
TestFailTtlMinutes == 1
FetchEmptyTtlMinutes == 2
FetchOkTtlMinutes == 3
DefaultTtlMinutes == 5

DayTicks == MinutesPerDay * TicksPerMinute
NowStart == (Days - 1) * DayTicks
NoDate == 0 - 1

CallIds == {1, 2}
NoConn == 0

(***************************************************************************)
(* Strings that are searched (from, to) are sequences of characters.      *)
(***************************************************************************)
LowerChar(ch) ==
  CASE ch = "A" -> "a"
    [] ch = "B" -> "b"
    [] ch = "C" -> "c"
    [] ch = "D" -> "d"
    [] ch = "E" -> "e"
    [] ch = "F" -> "f"
    [] ch = "G" -> "g"
    [] ch = "H" -> "h"
    [] ch = "I" -> "i"
    [] ch = "J" -> "j"
    [] ch = "K" -> "k"
    [] ch = "L" -> "l"
    [] ch = "M" -> "m"
    [] ch = "N" -> "n"
    [] ch = "O" -> "o"
    [] ch = "P" -> "p"
    [] ch = "Q" -> "q"
    [] ch = "R" -> "r"
    [] ch = "S" -> "s"
    [] ch = "T" -> "t"
    [] ch = "U" -> "u"
    [] ch = "V" -> "v"
    [] ch = "W" -> "w"
    [] ch = "X" -> "x"
    [] ch = "Y" -> "y"
    [] ch = "Z" -> "z"
    [] OTHER -> ch

toLowerCase(str) == [i \in 1 .. Len(str) |-> LowerChar(str[i])]

includes(str, sub) ==
  \E off \in 0 .. Len(str) :
    /\ off + Len(sub) <= Len(str)
    /\ \A i \in 1 .. Len(sub) : str[off + i] = sub[i]

ContainsIgnoreCase(field, wanted) == includes(toLowerCase(field), toLowerCase(wanted))

(***************************************************************************)
(* moment(): the `since` text denotes a calendar day and a minute of that *)
(* day.  A text whose fields are out of range matches the pattern of the  *)
(* validation schema but parses to an invalid moment.                     *)
(***************************************************************************)
NoSince == [given |-> FALSE, fmt |-> "slash", day |-> 0, minute |-> 0]

MomentIsValid(since) == since.minute < MinutesPerDay /\ since.day >= 0

MomentTicks(since) == (since.day * MinutesPerDay + since.minute) * TicksPerMinute

StartOfDay(t) == t - (t % DayTicks)

DayOf(t) == t \div DayTicks

(* A comparison that drops the instant itself.                             *)
isAfter(emailTime, sinceTime) == emailTime > sinceTime

isSameOrAfter(emailTime, sinceTime) == emailTime >= sinceTime

(***************************************************************************)
(* Array.prototype.sort with (a, b) => b.date - a.date: a stable sort,    *)
(* newest first.                                                           *)
(***************************************************************************)
RECURSIVE InsertByDate(_, _)
InsertByDate(sorted, m) ==
  IF sorted = <<>> THEN <<m>>
  ELSE IF m.date > Head(sorted).date THEN <<m>> \o sorted
  ELSE <<Head(sorted)>> \o InsertByDate(Tail(sorted), m)

RECURSIVE SortNewestFirst(_)
SortNewestFirst(emails) ==
  IF emails = <<>> THEN <<>>
  ELSE InsertByDate(SortNewestFirst(SubSeq(emails, 1, Len(emails) - 1)),
                    emails[Len(emails)])

Reverse(seq) == [i \in 1 .. Len(seq) |-> seq[Len(seq) + 1 - i]]

(* A slice that keeps everything.                                          *)
SliceAll(seq, n) == seq

SliceFirst(seq, n) == SubSeq(seq, 1, IF n < Len(seq) THEN n ELSE Len(seq))

SliceLast(seq, n) == SubSeq(seq, IF n < Len(seq) THEN Len(seq) - n + 1 ELSE 1, Len(seq))

(***************************************************************************)
(* Request bodies.  `missing` names the keys the body does not carry.     *)
(* Joi: a required key must be present, a present key must be well        *)
(* formed, and a key the schema does not know is rejected.                *)
(***************************************************************************)
ConfigKeys == {"email_address", "password", "imap_server", "port", "use_ssl",
               "mail_box", "protocol"}
QueryKeys == ConfigKeys \cup {"limit", "from", "since", "to"}
RequiredKeys == {"email_address", "password", "imap_server", "port", "use_ssl"}

IsEmail(str) == str \in {"u1@x.com", "u2@x.com"}
IsHostname(str) == str \in {"mail.x.com"}
IsBooleanText(str) == str \in {"true", "false"}

(* A pattern that any text matches.                                        *)
AnyText(since) == TRUE

SincePatternMatches(since) == since.fmt = "slash"

Has(body, key) == key \notin body.missing

ConfigFieldsOk(body) ==
  /\ \A key \in RequiredKeys : Has(body, key)
  /\ IsEmail(body.email_address)
  /\ body.password # ""
  /\ IsHostname(body.imap_server)
  /\ body.port >= MinPort /\ body.port <= MaxPort
  /\ IsBooleanText(body.use_ssl)
  /\ Has(body, "protocol") => body.protocol \in {"IMAP", "POP3"}

emailConfigSchema(body) ==
  /\ ConfigFieldsOk(body)
  /\ \A key \in QueryKeys \ ConfigKeys : ~Has(body, key)

emailQuerySchema(body) ==
  /\ ConfigFieldsOk(body)
  /\ Has(body, "limit") => (body.limit >= MinLimit /\ body.limit <= MaxLimitAllowed)
  /\ Has(body, "from") => body.from # <<>>
  /\ Has(body, "to") => body.to # <<>>
  /\ Has(body, "since") => SincePatternMatches(body.since)

(* The validated value: the body with the defaults of the schema.        *)
ValidatedValue(body) ==
  [email_address |-> body.email_address,
   password      |-> body.password,
   imap_server   |-> body.imap_server,
   port          |-> body.port,
   use_ssl       |-> body.use_ssl,
   mail_box      |-> IF Has(body, "mail_box") THEN body.mail_box ELSE "INBOX",
   protocol      |-> IF Has(body, "protocol") THEN body.protocol ELSE "IMAP",
   limit         |-> IF Has(body, "limit") THEN body.limit ELSE DefaultLimit,
   from          |-> IF Has(body, "from") THEN body.from ELSE <<>>,
   to            |-> IF Has(body, "to") THEN body.to ELSE <<>>,
   since         |-> IF Has(body, "since") THEN [body.since EXCEPT !.given = TRUE]
                     ELSE NoSince]

NoBody ==
  [missing |-> QueryKeys, email_address |-> "", password |-> "", imap_server |-> "",
   port |-> 0, use_ssl |-> "", mail_box |-> "", protocol |-> "", limit |-> 0,
   from |-> <<>>, to |-> <<>>, since |-> NoSince]

NoQuery == ValidatedValue(NoBody)

(***************************************************************************)
(* The mail server accepts a login with the account's real password.      *)
(***************************************************************************)
ServerAccepts(email, password) == password = "secret"

(***************************************************************************)
(* CacheService keys.  A key is the record of the parts that are joined   *)
(* into the key string; a part the key does not carry is left empty.      *)
(***************************************************************************)
NoKey == [op |-> "", email |-> "", server |-> "", port |-> 0, mailbox |-> "",
          limit |-> 0, from |-> <<>>, since |-> NoSince]

getConnectionTestKey(email, server, port) ==
  [NoKey EXCEPT !.op = "connection_test", !.email = email, !.server = server,
                !.port = port]

getEmailFetchKey(email, mailbox, limit, from, since) ==
  [NoKey EXCEPT !.op = "email_fetch", !.email = email, !.mailbox = mailbox,
                !.limit = limit,
                !.from = IF from # <<>> THEN from ELSE <<>>,
                !.since = IF since.given THEN since ELSE NoSince]

(***************************************************************************)
(* State.                                                                  *)
(***************************************************************************)
VARIABLES
  imap,             \* EmailService.imap: the connection id it holds, or NoConn
  pop3,             \* EmailService.pop3
  currentProtocol,  \* EmailService.currentProtocol
  conns,            \* the connection objects created so far, by id
  cache,            \* CacheService.cache: a set of [key, data, expireTime]
  now,              \* Date.now(), in ticks
  enableLocalStorage, \* config.storage.enableLocalStorage
  files,            \* number of email files written by DataService.saveEmails
  call,             \* the requests: position, parameters, locals, result
  crashed,          \* an exception escaped an event handler: the process exited
  invCache,         \* the CacheService instance of the InvoiceService module
  invoices,         \* the invoice records written by DataService.saveInvoiceInfo
  uuids,            \* number of identifiers uuidv4() has produced
  dets,             \* the detection requests on record; the last may be in progress
  submitted,        \* number of messages the detection requests have submitted
  keywords,         \* the configuration of the last update and what the next read returned
  probe,            \* the last set of each key and the last call a client made on the cache
  stats,            \* the last call of getInvoiceStats: its argument and its result
  batch             \* the call of InvoiceService.detectInvoices, once made

vars == <<imap, pop3, currentProtocol, conns, cache, now, enableLocalStorage,
          files, call, crashed, invCache, invoices, uuids, dets, submitted,
                 keywords,
                 probe,
                 stats,
                 batch>>

St == [imap |-> imap, pop3 |-> pop3, currentProtocol |-> currentProtocol,
       conns |-> conns, cache |-> cache, now |-> now,
       enableLocalStorage |-> enableLocalStorage, files |-> files,
       call |-> call, crashed |-> crashed, invCache |-> invCache,
       invoices |-> invoices, uuids |-> uuids, dets |-> dets,
       submitted |-> submitted,
       keywords |-> keywords,
       probe |-> probe,
       stats |-> stats,
       batch |-> batch]

Becomes(s) ==
  /\ imap' = s.imap
  /\ pop3' = s.pop3
  /\ currentProtocol' = s.currentProtocol
  /\ conns' = s.conns
  /\ cache' = s.cache
  /\ now' = s.now
  /\ enableLocalStorage' = s.enableLocalStorage
  /\ files' = s.files
  /\ call' = s.call
  /\ crashed' = s.crashed
  /\ invCache' = s.invCache
  /\ invoices' = s.invoices
  /\ uuids' = s.uuids
  /\ dets' = s.dets
  /\ submitted' = s.submitted
  /\ keywords' = s.keywords
  /\ probe' = s.probe
  /\ stats' = s.stats
  /\ batch' = s.batch

NoCmd == [op |-> "none", by |-> 0, password |-> "", n |-> 0]

NewConn(proto, owner, password) ==
  [proto |-> proto, owner |-> owner, password |-> password, st |-> "connecting",
   box |-> FALSE, ended |-> FALSE, usedBy |-> {}, closedBy |-> {}, cmd |-> NoCmd,
   listL |-> 0, retrL |-> <<>>, errL |-> <<owner>>, overrun |-> FALSE,
   maildrop |-> <<>>]

NoResult == [status |-> 0, success |-> FALSE, note |-> "", emails |-> <<>>, total |-> 0]

IdleCall ==
  [pc |-> "idle", kind |-> "", body |-> NoBody, overlapped |-> FALSE, q |-> NoQuery,
   own |-> NoConn, cconn |-> NoConn,
   sconn |-> NoConn, lconn |-> NoConn, ids |-> <<>>, matched |-> 0,
   idx |-> 0, toDeliver |-> {}, parsing |-> {}, arr |-> <<>>, emails |-> <<>>,
   aliased |-> FALSE, nseen |-> 0, today |-> 0, connects |-> 0, failed |-> {}, failure |-> "",
   logs |-> {}, result |-> NoResult]

ClosedCall == [IdleCall EXCEPT !.pc = "closed"]

(***************************************************************************)
(* CacheService.                                                           *)
(***************************************************************************)
CacheEntries(s, key) == {e \in s.cache : e.key = key}

(* CacheStored is a lookup that does not look at the expiry time.          *)
CacheStored(s, key) == CacheEntries(s, key)

CacheLive(s, key) == {e \in CacheEntries(s, key) : ~(s.now > e.expireTime)}

(* get(key): a live entry is a hit; an expired entry is deleted.          *)
CacheHit(s, key) == CacheLive(s, key) # {}

CacheData(s, key) == (CHOOSE e \in CacheLive(s, key) : TRUE).data

CacheAfterGet(s, key) ==
  [s EXCEPT !.cache = {e \in s.cache : e.key # key \/ ~(s.now > e.expireTime)}]

(* set(key, data, ttl): Map.set replaces the entry of the key; CacheAdd   *)
(* is a set that leaves the earlier entry in place.                        *)
CacheAdd(s, key, data, ttlMinutes) ==
  [s EXCEPT !.cache = @
       \cup {[key |-> key, data |-> data,
               expireTime |-> s.now + (IF ttlMinutes # 0 THEN ttlMinutes
                                       ELSE DefaultTtlMinutes) * TicksPerMinute]}]

CacheSet(s, key, data, ttlMinutes) ==
  [s EXCEPT !.cache = {e \in s.cache : e.key # key}
       \cup {[key |-> key, data |-> data,
               expireTime |-> s.now + (IF ttlMinutes # 0 THEN ttlMinutes
                                       ELSE DefaultTtlMinutes) * TicksPerMinute]}]

(* delete(key): what Map.delete returns, and the map after it.            *)
CacheDeleted(s, key) == CacheEntries(s, key) # {}

CacheDelete(s, key) == [s EXCEPT !.cache = {e \in @ : e.key # key}]

(* clear() and the cleanup() of the one-minute interval timer.             *)
CacheClear(s) == [s EXCEPT !.cache = {}]

(* cleanupAtExpiry is a sweep that removes an entry at its expiry time     *)
(* already.                                                                *)
cleanupAtExpiry(s) == [s EXCEPT !.cache = {e \in @ : ~(s.now >= e.expireTime)}]

cleanup(s) == [s EXCEPT !.cache = {e \in @ : ~(s.now > e.expireTime)}]

(***************************************************************************)
(* Results and the ways a call ends.                                       *)
(***************************************************************************)
Finish(s, c, result) == [s EXCEPT !.call[c].pc = "done", !.call[c].result = result]

ValidationError == [NoResult EXCEPT !.status = 400, !.note = "validation"]

TestResult(ok, why) ==
  [NoResult EXCEPT !.status = IF ok THEN 200 ELSE 400, !.success = ok, !.note = why]

FetchResult(ok, why, emails) ==
  [status |-> IF ok THEN 200 ELSE 400, success |-> ok, note |-> why,
   emails |-> emails, total |-> Len(emails)]

TestKey(q) == getConnectionTestKey(q.email_address, q.imap_server, q.port)

FetchKey(q) ==
  getEmailFetchKey(q.email_address,
                   IF q.mail_box # "" THEN q.mail_box ELSE "INBOX",
                   IF q.limit # 0 THEN q.limit ELSE DefaultLimit,
                   q.from, q.since)

(***************************************************************************)
(* disconnectIMAP, disconnectPOP3, disconnect.  c is the caller.          *)
(***************************************************************************)
disconnectIMAP(s, c) ==
  IF s.imap # NoConn
  THEN [s EXCEPT !.conns[s.imap].ended = TRUE,
                 !.conns[s.imap].closedBy = @ \cup {c},
                 !.imap = NoConn]
  ELSE s

disconnectPOP3(s, c) ==
  IF s.pop3 # NoConn
  THEN [s EXCEPT !.conns[s.pop3].ended = TRUE,
                 !.conns[s.pop3].overrun = @ \/ s.conns[s.pop3].cmd.op # "none",
                 !.conns[s.pop3].closedBy = @ \cup {c},
                 !.pop3 = NoConn]
  ELSE s

disconnect(s, c) ==
  IF s.currentProtocol = "POP3" THEN disconnectPOP3(s, c) ELSE disconnectIMAP(s, c)

(* The catch block of testConnection.                                     *)
TestCatch(s, c, why) ==
  LET result == TestResult(FALSE, why)
  IN Finish(CacheSet(s, TestKey(s.call[c].q), result, TestFailTtlMinutes), c, result)

(* The catch block of fetchEmails.                                        *)
FetchCatch(s, c, why) == Finish(disconnect(s, c), c, FetchResult(FALSE, why, <<>>))

(* A rejection that reaches the public method of the call.                *)
Reject(s, c, kindOfFailure, why) ==
  LET s1 == [s EXCEPT !.call[c].failure = kindOfFailure]
  IN IF s.call[c].kind = "test" THEN TestCatch(s1, c, why) ELSE FetchCatch(s1, c, why)

(***************************************************************************)
(* The end of a successful fetch, common to both protocols: the optional  *)
(* save, the result, the cache entry.                                      *)
(***************************************************************************)
CurEmails(cr) == IF cr.aliased THEN cr.arr ELSE cr.emails

FinishFetchOk(s, c) ==
  LET result == FetchResult(TRUE, "fetched", CurEmails(s.call[c]))
  IN Finish(CacheSet(s, FetchKey(s.call[c].q), result, FetchOkTtlMinutes), c, result)

FinishFetchEmpty(s, c) ==
  LET result == FetchResult(TRUE, "nothing found", <<>>)
  IN Finish(CacheSet(disconnect(s, c), FetchKey(s.call[c].q), result,
                     FetchEmptyTtlMinutes), c, result)

(* if (config.storage.enableLocalStorage) await dataService.saveEmails()  *)
SaveOrFinish(s, c) ==
  IF s.enableLocalStorage THEN [s EXCEPT !.call[c].pc = "saveEmails"]
  ELSE FinishFetchOk(s, c)

parseEmailMessage(m, nowT) ==
  [seq |-> m.seq,
   date |-> IF m.hdr.date = NoDate THEN nowT ELSE m.hdr.date,
   from |-> m.hdr.from,
   to |-> m.hdr.to]

(***************************************************************************)
(* IMAP.                                                                   *)
(***************************************************************************)
connectIMAP(s, c) ==
  LET id == Len(s.conns) + 1
  IN [s EXCEPT !.currentProtocol = "IMAP",
               !.conns = Append(@, NewConn("IMAP", c, s.call[c].q.password)),
               !.imap = id,
               !.call[c].own = id,
               !.call[c].connects = @ + 1,
               !.call[c].pc = "connectIMAP"]

(* The search criteria: FROM, TO and SINCE (a date, the time is dropped). *)
buildSearchCriteria(q, nowT) ==
  [from |-> q.from,
   to |-> q.to,
   sinceDay |-> IF q.since.given THEN DayOf(StartOfDay(MomentTicks(q.since)))
                ELSE DayOf(StartOfDay(nowT)),
   dateOk |-> q.since.given => MomentIsValid(q.since)]

(* What an IMAP server returns for the criteria: FROM and TO are matched  *)
(* on the header, SINCE on the day the server received the message        *)
(* (INTERNALDATE), which is no later than today and is independent of     *)
(* the Date header.                                                        *)
ServerMatches(hdr, criteria, nowT) ==
  /\ criteria.from # <<>> => ContainsIgnoreCase(hdr.from, criteria.from)
  /\ criteria.to # <<>> => ContainsIgnoreCase(hdr.to, criteria.to)
  /\ \E recvDay \in 0 .. DayOf(nowT) : recvDay >= criteria.sinceDay

ImapUsable(s, x) == s.conns[x].st = "ready" /\ ~s.conns[x].ended

fetchEmailDetails(s, c) ==
  IF s.imap = NoConn THEN Reject(s, c, "state", "IMAP not connected")
  ELSE LET x == s.imap
           s1 == [s EXCEPT !.conns[x].usedBy = @ \cup {c}]
       IN IF ~(s.conns[x].st = "ready" /\ s.conns[x].box)
          THEN Reject(s1, c, "state", "no mailbox selected")
          ELSE [s1 EXCEPT !.call[c].pc = "fetchEmailDetails",
                          !.call[c].cconn = x,
                          !.call[c].toDeliver = {s.call[c].ids[i] :
                                                  i \in 1 .. Len(s.call[c].ids)},
                          !.call[c].parsing = {},
                          !.call[c].arr = <<>>]

searchEmails(s, c) ==
  IF s.imap = NoConn THEN Reject(s, c, "state", "IMAP not connected")
  ELSE LET x == s.imap
           s1 == [s EXCEPT !.conns[x].usedBy = @ \cup {c}]
       IN IF ~(s.conns[x].st = "ready" /\ s.conns[x].box)
          THEN Reject(s1, c, "state", "no mailbox selected")
          ELSE IF ~buildSearchCriteria(s.call[c].q, s.now).dateOk
          THEN Reject(s1, c, "state", "search date not parseable")
          ELSE [s1 EXCEPT !.call[c].pc = "searchEmails",
                          !.call[c].today = StartOfDay(s.now),
                          !.call[c].cconn = x,
                          !.call[c].sconn = x]

openBox(s, c) ==
  IF s.imap = NoConn THEN Reject(s, c, "state", "IMAP not connected")
  ELSE LET x == s.imap
           s1 == [s EXCEPT !.conns[x].usedBy = @ \cup {c}]
       IN IF s.conns[x].st # "ready"
          THEN Reject(s1, c, "state", "not authenticated")
          ELSE [s1 EXCEPT !.call[c].pc = "openBox", !.call[c].cconn = x]

(* After await connectIMAP(): testConnection disconnects and reports,     *)
(* fetchEmailsIMAP opens the mailbox.                                      *)
AfterConnectIMAP(s, c) ==
  IF s.call[c].kind = "test"
  THEN LET result == TestResult(TRUE, "connected")
       IN Finish(CacheSet(disconnectIMAP(s, c), TestKey(s.call[c].q), result,
                          TestOkTtlMinutes), c, result)
  ELSE openBox(s, c)

(* After the search callback: uids.reverse(), the empty case, the slice   *)
(* to the limit, the fetch.                                                *)
AfterSearch(s, c, uids) ==
  LET messageIds == Reverse(uids)
      q == s.call[c].q
  IN IF Len(messageIds) = 0 THEN FinishFetchEmpty(s, c)
     ELSE fetchEmailDetails(
            [s EXCEPT !.call[c].matched = Len(messageIds),
                      !.call[c].ids = SliceFirst(messageIds,
                                        IF q.limit # 0 THEN q.limit ELSE DefaultLimit)],
            c)

(* After the fetch 'end' event: the sort, the resolve, the re-check of    *)
(* `since`, the disconnect.  Without `since` the result is the array of   *)
(* fetchEmailDetails itself, which pending parsers still push to.         *)
AfterFetchIMAP(s, c) ==
  LET cr == s.call[c]
      sorted == SortNewestFirst(cr.arr)
      sinceOk == MomentIsValid(cr.q.since)
      sinceTime == MomentTicks(cr.q.since)
      Keep(e) == sinceOk /\ isSameOrAfter(e.date, sinceTime)
      s1 == IF cr.q.since.given
            THEN [s EXCEPT !.call[c].arr = sorted,
                           !.call[c].nseen = Len(sorted),
                           !.call[c].emails = SelectSeq(sorted, Keep),
                           !.call[c].aliased = FALSE]
            ELSE [s EXCEPT !.call[c].arr = sorted,
                           !.call[c].nseen = Len(sorted),
                           !.call[c].aliased = TRUE]
  IN SaveOrFinish(disconnect(s1, c), c)

(***************************************************************************)
(* POP3.  The client object keeps one command in flight: a command sent   *)
(* while another is pending ('locked') or in a state that does not allow  *)
(* it ('invalid-state') is dropped; the service listens to neither event. *)
(* `overrun` records that the service called a command (or quit) of the   *)
(* client out of turn: with a command unanswered, before the state        *)
(* allowed it, or after quit.                                              *)
(***************************************************************************)
StateAllows(conn, op) ==
  CASE op = "login" -> conn.st = "connected"
    [] op \in {"list", "retr"} -> conn.st = "authed"
    [] OTHER -> FALSE

SendCmd(s, h, by, cmd) ==
  LET s1 == [s EXCEPT !.conns[h].usedBy = @ \cup {by}]
  IN IF s.conns[h].cmd.op # "none" \/ s.conns[h].ended
        \/ ~StateAllows(s.conns[h], cmd.op)
     THEN [s1 EXCEPT !.conns[h].overrun = TRUE]
     ELSE [s1 EXCEPT !.conns[h].cmd = cmd]

connectPOP3(s, c) ==
  LET id == Len(s.conns) + 1
  IN [s EXCEPT !.currentProtocol = "POP3",
               !.conns = Append(@, NewConn("POP3", c, s.call[c].q.password)),
               !.pop3 = id,
               !.call[c].own = id,
               !.call[c].connects = @ + 1,
               !.call[c].pc = "connectPOP3"]

(* The client-side filters of fetchEmailsPOP3: since or today, from, to.  *)
FilterPOP3(emails, q, nowT) ==
  LET sinceTime == MomentTicks(q.since)
      today == StartOfDay(nowT)
      KeepSince(e) == isSameOrAfter(e.date, sinceTime)
      KeepToday(e) == isSameOrAfter(e.date, today)
      KeepFrom(e) == includes(toLowerCase(e.from), toLowerCase(q.from))
      KeepTo(e) == includes(toLowerCase(e.to), toLowerCase(q.to))
      byTime == IF q.since.given
                THEN IF ~MomentIsValid(q.since) THEN emails
                     ELSE SelectSeq(emails, KeepSince)
                ELSE SelectSeq(emails, KeepToday)
      byFrom == IF q.from # <<>> THEN SelectSeq(byTime, KeepFrom) ELSE byTime
  IN IF q.to # <<>> THEN SelectSeq(byFrom, KeepTo) ELSE byFrom

(* After the loop of fetchPOP3EmailDetails: the sort, then the filters,   *)
(* the disconnect and the optional save of the list handler.              *)
AfterLoopPOP3(s, c) ==
  LET cr == s.call[c]
      sorted == SortNewestFirst(cr.arr)
      s1 == [s EXCEPT !.call[c].arr = sorted,
                      !.call[c].nseen = Len(sorted),
                      !.call[c].emails = FilterPOP3(sorted, cr.q, s.now),
                      !.call[c].aliased = FALSE,
                      !.call[c].today = StartOfDay(s.now)]
  IN SaveOrFinish(disconnect(s1, c), c)

(* One turn of the loop: retrievePOP3Email(msgNumber) rejects at once     *)
(* when the service holds no client (the message is skipped), otherwise   *)
(* sends RETR on the client the service holds and listens on it.          *)
RECURSIVE RetrLoop(_, _)
RetrLoop(s, c) ==
  LET cr == s.call[c]
  IN IF cr.idx > Len(cr.ids) THEN AfterLoopPOP3(s, c)
     ELSE IF s.pop3 = NoConn
     THEN RetrLoop([s EXCEPT !.call[c].failed = @ \cup {cr.ids[cr.idx]},
                             !.call[c].idx = @ + 1], c)
     ELSE [SendCmd(s, s.pop3, c, [NoCmd EXCEPT !.op = "retr", !.by = c,
                                               !.n = cr.ids[cr.idx]])
             EXCEPT !.call[c].pc = "retr", !.conns[s.pop3].retrL = Append(@, c)]

(* A 'retr' listener whose rejection is not caught in the loop: the fetch  *)
(* ends in the catch block of fetchEmails.                                 *)
OnRetrUncaught(s, c, status, hdr) ==
  IF status
  THEN [s EXCEPT !.call[c].pc = "parse",
                 !.call[c].parsing = {[seq |-> s.call[c].ids[s.call[c].idx],
                                       hdr |-> hdr]}]
  ELSE FetchCatch([s EXCEPT !.call[c].failed = @ \cup {s.call[c].ids[s.call[c].idx]}],
                  c, "RETR failed")

(* The 'retr' listener of the call: resolve with the content, or reject   *)
(* (caught in the loop: the message is skipped).                           *)
OnRetr(s, c, status, hdr) ==
  IF status
  THEN [s EXCEPT !.call[c].pc = "parse",
                 !.call[c].parsing = {[seq |-> s.call[c].ids[s.call[c].idx],
                                       hdr |-> hdr]}]
  ELSE RetrLoop([s EXCEPT !.call[c].failed = @ \cup {s.call[c].ids[s.call[c].idx]},
                          !.call[c].idx = @ + 1], c)

(* The list of the 'list' event: from the array or the object the library *)
(* parsed, or from the raw text; a response that yields no entry gives    *)
(* the empty list.                                                         *)
ParseList(shape, n) ==
  IF shape \in {"array", "object", "raw"} THEN [i \in 1 .. n |-> i] ELSE <<>>

(* The 'list' listener of the call.                                       *)
OnList(s, c, resp, shape, n) ==
  IF ~resp THEN Reject(disconnect(s, c), c, "network", "LIST failed")
  ELSE LET emailList == ParseList(shape, n)
           q == s.call[c].q
           s1 == IF shape = "malformed"
                 THEN [s EXCEPT !.call[c].failure = "malformed"] ELSE s
       IN IF Len(emailList) = 0 THEN FinishFetchEmpty(s1, c)
          ELSE RetrLoop(
                 [s1 EXCEPT !.call[c].matched = Len(emailList),
                            !.call[c].ids = Reverse(SliceLast(emailList,
                                              IF q.limit # 0 THEN q.limit
                                              ELSE DefaultLimit)),
                            !.call[c].idx = 1,
                            !.call[c].arr = <<>>], c)

(* fetchEmailsPOP3 after await connectPOP3(): the listeners and LIST go   *)
(* to the client the service holds at that moment.                         *)
ListStart(s, c) ==
  IF s.pop3 = NoConn THEN Reject(s, c, "state", "POP3 not connected")
  ELSE LET h == s.pop3
           s1 == SendCmd(s, h, c, [NoCmd EXCEPT !.op = "list", !.by = c])
       IN [s1 EXCEPT !.conns[h].listL = c,
                     !.conns[h].errL = Append(@, c),
                     !.call[c].lconn = h,
                     !.call[c].pc = "list"]

AfterConnectPOP3(s, c) ==
  IF s.call[c].kind = "test"
  THEN LET result == TestResult(TRUE, "connected")
       IN Finish(CacheSet(disconnectPOP3(s, c), TestKey(s.call[c].q), result,
                          TestOkTtlMinutes), c, result)
  ELSE ListStart(s, c)

(* A 'connect' listener that does not leave LIST to the answer of the    *)
(* login: the fetch goes on as soon as login() was called.                *)
OnConnectUnawaited(s, x) ==
  LET o == s.conns[x].owner
  IN IF s.pop3 = NoConn THEN [s EXCEPT !.crashed = TRUE]
     ELSE LET s1 == SendCmd(s, s.pop3, o, [NoCmd EXCEPT !.op = "login", !.by = o,
                                             !.password = s.conns[x].password])
          IN IF s.call[o].kind = "fetch" THEN ListStart(s1, o) ELSE s1

(* The 'connect' listener: login() on the client the service holds.       *)
OnConnect(s, x) ==
  LET o == s.conns[x].owner
  IN IF s.pop3 = NoConn THEN [s EXCEPT !.crashed = TRUE]
     ELSE SendCmd(s, s.pop3, o, [NoCmd EXCEPT !.op = "login", !.by = o,
                                   !.password = s.conns[x].password])

(* The 'login' listener of connectPOP3.                                   *)
OnLogin(s, x, status) ==
  LET o == s.conns[x].owner
  IN IF s.call[o].pc = "connectPOP3" /\ s.call[o].own = x
     THEN IF status THEN AfterConnectPOP3(s, o)
          ELSE Reject(s, o, "auth", "login rejected")
     ELSE s

(* The 'error' listeners of a client: the one of connectPOP3 and the two  *)
(* of fetchEmailsPOP3.                                                     *)
ErrorListener(s, x, c) ==
  IF \/ (s.call[c].pc = "connectPOP3" /\ s.call[c].own = x)
     \/ (s.call[c].pc \in {"list", "retr", "parse"} /\ s.call[c].lconn = x)
  THEN Reject(s, c, "network", "connection error")
  ELSE s

RECURSIVE EmitRetr(_, _, _, _)
EmitRetr(s, listeners, status, hdr) ==
  IF listeners = <<>> THEN s
  ELSE EmitRetr(IF s.call[Head(listeners)].pc = "retr"
                THEN OnRetr(s, Head(listeners), status, hdr) ELSE s,
                Tail(listeners), status, hdr)

RECURSIVE EmitError(_, _, _)
EmitError(s, x, listeners) ==
  IF listeners = <<>> THEN s
  ELSE EmitError(ErrorListener(s, x, Head(listeners)), x, Tail(listeners))

(***************************************************************************)
(* Actions.  The requests of EmailController, then the events of the      *)
(* mail libraries, the file system and the clock.                          *)
(***************************************************************************)
InFlight(c) == call[c].pc \notin {"idle", "done", "closed"}

(* A request is admitted; with overlap = FALSE only while no other is in  *)
(* flight.  Call 1 is the first request.                                   *)
Admitted(c, overlap) ==
  /\ ~crashed
  /\ call[c].pc = "idle"
  /\ \A d \in CallIds : d < c => call[d].pc # "idle"
  /\ overlap \/ \A d \in CallIds \ {c} : ~InFlight(d)

(* The controller logs the body as it came, logger.info(.., { body:        *)
(* req.body }), before it validates; logs holds the passwords that the log *)
(* entries of the request spell out.                                       *)
Received(s, c, kind, body) ==
  LET Busy(d) == s.call[d].pc \notin {"idle", "done", "closed"}
      others  == \E d \in CallIds \ {c} : Busy(d)
  IN  [s EXCEPT !.call = [d \in CallIds |->
         IF d = c
         THEN [s.call[d] EXCEPT !.kind = kind, !.body = body, !.overlapped = others,
                                !.logs = IF Has(body, "password") THEN {body.password}
                                         ELSE {}]
         ELSE IF Busy(d) THEN [s.call[d] EXCEPT !.overlapped = TRUE]
         ELSE s.call[d]]]

Begin(s, c) == [s EXCEPT !.call[c].q = ValidatedValue(s.call[c].body)]

(* EmailService.testConnection up to its first await.                     *)
testConnection(s, c) ==
  LET q == s.call[c].q
      s1 == CacheAfterGet(s, TestKey(q))
  IN IF CacheHit(s, TestKey(q)) THEN Finish(s1, c, CacheData(s, TestKey(q)))
     ELSE IF q.protocol = "POP3" THEN connectPOP3(s1, c) ELSE connectIMAP(s1, c)

(* EmailService.fetchEmails up to its first await.                        *)
fetchEmails(s, c) ==
  IF s.call[c].q.protocol = "POP3" THEN connectPOP3(s, c) ELSE connectIMAP(s, c)

TestConnectionReq(c, body, overlap) ==
  /\ Admitted(c, overlap)
  /\ Becomes(IF ~emailConfigSchema(body)
             THEN Finish(Received(St, c, "test", body), c, ValidationError)
             ELSE testConnection(Begin(Received(St, c, "test", body), c), c))

FetchEmailsReq(c, body, overlap) ==
  /\ Admitted(c, overlap)
  /\ Becomes(IF ~emailQuerySchema(body)
             THEN Finish(Received(St, c, "fetch", body), c, ValidationError)
             ELSE fetchEmails(Begin(Received(St, c, "fetch", body), c), c))

(* The response is sent; the request is over.                             *)
Respond(c) ==
  /\ ~crashed
  /\ call[c].pc = "done"
  /\ Becomes([St EXCEPT !.call[c] = ClosedCall])

ConnIds == 1 .. Len(conns)

(* IMAP 'ready': the server accepted the login.                           *)
ImapReady(x) ==
  /\ ~crashed
  /\ conns[x].proto = "IMAP" /\ conns[x].st = "connecting" /\ ~conns[x].ended
  /\ ServerAccepts(call[conns[x].owner].q.email_address, conns[x].password)
  /\ LET o == conns[x].owner
         s1 == [St EXCEPT !.conns[x].st = "ready"]
     IN Becomes(IF call[o].pc = "connectIMAP" /\ call[o].own = x
                THEN AfterConnectIMAP(s1, o) ELSE s1)

(* IMAP 'error' while connecting: unreachable host, TLS failure, timeout  *)
(* or a rejected login.                                                    *)
ImapError(x) ==
  /\ ~crashed
  /\ conns[x].proto = "IMAP" /\ conns[x].st = "connecting" /\ ~conns[x].ended
  /\ LET o == conns[x].owner
         s1 == [St EXCEPT !.conns[x].st = "error"]
         why == IF ServerAccepts(call[o].q.email_address, conns[x].password)
                THEN "network" ELSE "auth"
     IN Becomes(IF call[o].pc = "connectIMAP" /\ call[o].own = x
                THEN Reject(s1, o, why, "connect failed") ELSE s1)

ImapOpenBoxDone(c, ok) ==
  /\ ~crashed
  /\ call[c].pc = "openBox"
  /\ ok => ImapUsable(St, call[c].cconn)
  /\ Becomes(IF ok THEN searchEmails([St EXCEPT !.conns[call[c].cconn].box = TRUE], c)
             ELSE Reject(St, c, "network", "openBox failed"))

ImapSearchDone(c, ok, k) ==
  /\ ~crashed
  /\ call[c].pc = "searchEmails"
  /\ ok => ImapUsable(St, call[c].cconn)
  /\ (ok /\ k > 0) => buildSearchCriteria(call[c].q, now).sinceDay <= DayOf(now)
  /\ ~ok => k = 0
  /\ Becomes(IF ok THEN AfterSearch(St, c, [i \in 1 .. k |-> i])
             ELSE Reject(St, c, "network", "search failed"))

(* A 'message' of the fetch has ended: its body goes to simpleParser.     *)
ImapMessage(c, id, hdr) ==
  /\ ~crashed
  /\ call[c].pc = "fetchEmailDetails"
  /\ id \in call[c].toDeliver
  /\ ImapUsable(St, call[c].cconn)
  /\ call[c].cconn = call[c].sconn
        => ServerMatches(hdr, buildSearchCriteria(call[c].q, now), now)
  /\ Becomes([St EXCEPT !.call[c].toDeliver = @ \ {id},
                        !.call[c].parsing = @ \cup {[seq |-> id, hdr |-> hdr]}])

(* simpleParser settles: the message is pushed to the array, or the       *)
(* failure is logged.  It may settle after the fetch has ended, and after  *)
(* fetchEmails has returned: without since the emails of the result are    *)
(* that very array, in the hands of the controller and in the cache.       *)
ImapParseDone(c, m, ok) ==
  /\ ~crashed
  /\ call[c].pc \in {"fetchEmailDetails", "saveEmails", "done"}
  /\ m \in call[c].parsing
  /\ LET e == parseEmailMessage(m, now)
         shared == ok /\ call[c].pc = "done" /\ call[c].aliased
                      /\ call[c].result.success
         s1 == [St EXCEPT !.call[c].parsing = @ \ {m},
                          !.call[c].arr = IF ok THEN Append(@, e) ELSE @,
                          !.call[c].failed = IF ok THEN @ ELSE @ \cup {m.seq}]
     IN Becomes(IF shared
                THEN [s1 EXCEPT !.call[c].result.emails = Append(@, e),
                                !.cache = {IF x.key = FetchKey(call[c].q)
                                              /\ x.data = call[c].result
                                           THEN [x EXCEPT !.data.emails = Append(@, e)]
                                           ELSE x : x \in @}]
                ELSE s1)

ImapFetchEnd(c) ==
  /\ ~crashed
  /\ call[c].pc = "fetchEmailDetails"
  /\ call[c].toDeliver = {}
  /\ ImapUsable(St, call[c].cconn)
  /\ Becomes(AfterFetchIMAP(St, c))

ImapFetchError(c) ==
  /\ ~crashed
  /\ call[c].pc = "fetchEmailDetails"
  /\ Becomes(Reject(St, c, "network", "fetch failed"))

(* POP3 'connect': the socket is open.                                    *)
PopConnect(x) ==
  /\ ~crashed
  /\ conns[x].proto = "POP3" /\ conns[x].st = "connecting" /\ ~conns[x].ended
  /\ Becomes(OnConnect([St EXCEPT !.conns[x].st = "connected"], x))

(* POP3 'login': the answer to the pending login command.                 *)
PopLogin(x) ==
  /\ ~crashed
  /\ conns[x].proto = "POP3" /\ conns[x].cmd.op = "login" /\ ~conns[x].ended
  /\ LET status == ServerAccepts(call[conns[x].cmd.by].q.email_address,
                                 conns[x].cmd.password)
         s1 == [St EXCEPT !.conns[x].cmd = NoCmd,
                          !.conns[x].st = IF status THEN "authed" ELSE "connected"]
     IN Becomes(OnLogin(s1, x, status))

(* POP3 'error': the connection is lost (or was never made).              *)
PopError(x) ==
  /\ ~crashed
  /\ conns[x].proto = "POP3" /\ conns[x].st # "closed" /\ ~conns[x].ended
  /\ Becomes(EmitError([St EXCEPT !.conns[x].st = "closed", !.conns[x].cmd = NoCmd],
                       x, conns[x].errL))

(* POP3 'list': the answer to the pending LIST.  The server keeps the    *)
(* maildrop locked for the session: its n messages are the ones RETR      *)
(* answers with.  An empty `maildrop` with n > 0 leaves each message      *)
(* undetermined until it is retrieved.                                     *)
PopList(x, resp, shape, n, maildrop) ==
  /\ ~crashed
  /\ conns[x].proto = "POP3" /\ conns[x].cmd.op = "list" /\ ~conns[x].ended
  /\ ~resp => (shape = "array" /\ n = 0)
  /\ shape = "malformed" => n = 0
  /\ LET c == conns[x].listL
         s1 == [St EXCEPT !.conns[x].cmd = NoCmd, !.conns[x].maildrop = maildrop]
     IN Becomes(IF c # 0 /\ call[c].pc = "list" /\ call[c].lconn = x
                THEN OnList(s1, c, resp, shape, n) ELSE s1)

(* POP3 'retr': the answer to the pending RETR.                           *)
PopRetr(x, status, hdr) ==
  /\ ~crashed
  /\ conns[x].proto = "POP3" /\ conns[x].cmd.op = "retr" /\ ~conns[x].ended
  /\ conns[x].maildrop # <<>> => hdr = conns[x].maildrop[conns[x].cmd.n]
  /\ Becomes(EmitRetr([St EXCEPT !.conns[x].cmd = NoCmd, !.conns[x].retrL = <<>>],
                      conns[x].retrL, status, hdr))

(* simpleParser settles in the loop of fetchPOP3EmailDetails.             *)
PopParseDone(c, ok) ==
  /\ ~crashed
  /\ call[c].pc = "parse"
  /\ LET m == CHOOSE m \in call[c].parsing : TRUE
         s1 == [St EXCEPT !.call[c].parsing = {},
                          !.call[c].arr = IF ok THEN Append(@, parseEmailMessage(m, now))
                                          ELSE @,
                          !.call[c].failed = IF ok THEN @ ELSE @ \cup {m.seq},
                          !.call[c].idx = @ + 1]
     IN Becomes(RetrLoop(s1, c))

(* DataService.saveEmails settles: the file is written, or the write      *)
(* throws.                                                                 *)
SaveDone(c, ok) ==
  /\ ~crashed
  /\ call[c].pc = "saveEmails"
  /\ Becomes(IF ok THEN FinishFetchOk([St EXCEPT !.files = @ + 1], c)
             ELSE Reject(St, c, "storage", "write failed"))

Tick ==
  /\ ~crashed
  /\ now < NowStart + MaxTicks
  /\ now' = now + 1
  /\ UNCHANGED <<imap, pop3, currentProtocol, conns, cache, enableLocalStorage,
                 files, call, crashed, invCache, invoices, uuids, dets, submitted,
                 keywords,
                 probe,
                 stats,
                 batch>>

(***************************************************************************)
(* Inputs: the request bodies and the messages of the server.             *)
(***************************************************************************)
BaseBody ==
  [missing |-> {"mail_box", "limit", "from", "to", "since"},
   email_address |-> "u1@x.com", password |-> "secret",
   imap_server |-> "mail.x.com", port |-> 993, use_ssl |-> "true",
   mail_box |-> "INBOX", protocol |-> "IMAP", limit |-> 0, from |-> <<>>,
   to |-> <<>>, since |-> NoSince]

TestBody(protocol, email, password) ==
  [BaseBody EXCEPT !.protocol = protocol, !.email_address = email,
                   !.password = password]

FetchBody(protocol, password, limit, since, from, to) ==
  [BaseBody EXCEPT !.protocol = protocol, !.password = password, !.limit = limit,
                   !.since = since, !.from = from, !.to = to,
                   !.missing = {"mail_box"}
                       \cup (IF limit = 0 THEN {"limit"} ELSE {})
                       \cup (IF since.given THEN {} ELSE {"since"})
                       \cup (IF from = <<>> THEN {"from"} ELSE {})
                       \cup (IF to = <<>> THEN {"to"} ELSE {})]

SinceText(fmt, day, minute) == [given |-> TRUE, fmt |-> fmt, day |-> day, minute |-> minute]

(* Bodies a schema rejects: one defect each.                              *)
Defects(body) ==
  {[body EXCEPT !.missing = @ \cup {key}] : key \in RequiredKeys}
    \cup {[body EXCEPT !.email_address = "not-an-email"],
          [body EXCEPT !.password = ""],
          [body EXCEPT !.imap_server = "bad host"],
          [body EXCEPT !.port = 0],
          [body EXCEPT !.port = 65536],
          [body EXCEPT !.use_ssl = "maybe"],
          [body EXCEPT !.protocol = "SMTP"]}

InvalidTestBodies ==
  Defects(BaseBody)
    \cup {[BaseBody EXCEPT !.missing = @ \ {"since"},
                           !.since = SinceText("slash", Days - 1, 0)]}

InvalidFetchBodies ==
  Defects(BaseBody)
    \cup {[BaseBody EXCEPT !.missing = @ \ {"since"}, !.since = SinceText(fmt, Days - 1, 0)] :
            fmt \in {"iso", "date only", "with seconds", "empty"}}
    \cup {[BaseBody EXCEPT !.missing = @ \ {"limit"}, !.limit = n] : n \in {0, 101}}
    \cup {[BaseBody EXCEPT !.missing = @ \ {"from"}]}

Protocols == {"IMAP", "POP3"}
Passwords == {"secret", "wrong"}
Sinces == {NoSince}
            \cup {SinceText("slash", Days - 1, m) : m \in {0, MinutesPerDay - 1, MinutesPerDay}}
Filters == {[from |-> <<>>, to |-> <<>>], [from |-> <<"a">>, to |-> <<>>],
            [from |-> <<>>, to |-> <<"y">>]}
Correspondents == {[from |-> <<"A", "b">>, to |-> <<"x">>],
                   [from |-> <<"c">>, to |-> <<"X", "y">>]}

TestBodies == {TestBody(p, e, w) : p \in Protocols, e \in {"u1@x.com"}, w \in Passwords}
                \cup InvalidTestBodies

FetchBodies ==
  {FetchBody(p, w, l, s, f.from, f.to) : p \in Protocols, w \in Passwords,
                                         l \in 1 .. MaxLimit, s \in Sinces, f \in Filters}
    \cup InvalidFetchBodies

(* The Date headers of the messages: none, and the ticks just before and   *)
(* at each instant a since of Sinces denotes.                              *)
HeaderDates ==
  {NoDate} \cup UNION {{MomentTicks(s) - 1, MomentTicks(s)} :
                         s \in {x \in Sinces : x.given /\ MomentIsValid(x)}}

Headers == {[date |-> d, from |-> p.from, to |-> p.to] :
              d \in HeaderDates, p \in Correspondents}

(* The inputs of the runs with two requests.                              *)
TestBodies2 == {TestBody(p, e, w) : p \in Protocols, e \in {"u1@x.com"}, w \in Passwords}
FetchBodies2 == {FetchBody(p, w, 0, NoSince, <<>>, <<>>) : p \in Protocols, w \in Passwords}
Headers2 == {[date |-> NowStart, from |-> <<"c">>, to |-> <<"x">>]}

Init ==
  /\ imap = NoConn
  /\ pop3 = NoConn
  /\ currentProtocol = "IMAP"
  /\ conns = <<>>
  /\ cache = {}
  /\ now = NowStart
  /\ enableLocalStorage \in BOOLEAN
  /\ files = 0
  /\ call = [c \in CallIds |-> IdleCall]
  /\ crashed = FALSE
  /\ invCache = {}
  /\ invoices = <<>>
  /\ uuids = 0
  /\ dets = <<>>
  /\ submitted = 0
  /\ keywords = [updated |-> <<>>, returned |-> <<>>]
  /\ probe = [last |-> {}, op |-> <<>>]
  /\ stats = <<>>
  /\ batch = <<>>

Events(hdrs, maxN, known) ==
  \/ \E x \in ConnIds : ImapReady(x)
  \/ \E x \in ConnIds : ImapError(x)
  \/ \E c \in CallIds, ok \in BOOLEAN : ImapOpenBoxDone(c, ok)
  \/ \E c \in CallIds, ok \in BOOLEAN, k \in 0 .. maxN : ImapSearchDone(c, ok, k)
  \/ \E c \in CallIds, id \in 1 .. maxN, hdr \in hdrs : ImapMessage(c, id, hdr)
  \/ \E c \in CallIds, ok \in BOOLEAN : \E m \in call[c].parsing : ImapParseDone(c, m, ok)
  \/ \E c \in CallIds : ImapFetchEnd(c)
  \/ \E c \in CallIds : ImapFetchError(c)
  \/ \E x \in ConnIds : PopConnect(x)
  \/ \E x \in ConnIds : PopLogin(x)
  \/ \E x \in ConnIds : PopError(x)
  \/ \E x \in ConnIds, resp \in BOOLEAN, n \in 0 .. maxN,
        shape \in {"array", "object", "raw", "malformed"} :
        \E maildrop \in (IF known THEN [1 .. n -> hdrs] ELSE {<<>>}) :
          PopList(x, resp, shape, n, maildrop)
  \/ \E x \in ConnIds, status \in BOOLEAN, hdr \in hdrs : PopRetr(x, status, hdr)
  \/ \E c \in CallIds, ok \in BOOLEAN : PopParseDone(c, ok)
  \/ \E c \in CallIds, ok \in BOOLEAN : SaveDone(c, ok)
  \/ \E c \in CallIds : Respond(c)

(* One request, any parameters, any mailbox, within one tick of the clock. *)
Next ==
  \/ \E body \in TestBodies : TestConnectionReq(1, body, FALSE)
  \/ \E body \in FetchBodies : FetchEmailsReq(1, body, FALSE)
  \/ Events(Headers, MaxMsgs, FALSE)

Spec == Init /\ [][Next]_vars

(* One request, the maildrop of a POP3 session known from its LIST on.    *)
NextMaildrop ==
  \/ \E body \in TestBodies : TestConnectionReq(1, body, FALSE)
  \/ \E body \in FetchBodies : FetchEmailsReq(1, body, FALSE)
  \/ Events(Headers, MaxMsgs, TRUE)

SpecMaildrop == Init /\ [][NextMaildrop]_vars

(* Two requests, one after the other.                                     *)
NextSeq ==
  \/ \E c \in CallIds, body \in TestBodies2 : TestConnectionReq(c, body, FALSE)
  \/ \E c \in CallIds, body \in FetchBodies2 : FetchEmailsReq(c, body, FALSE)
  \/ Events(Headers2, 1, FALSE)
  \/ Tick

SpecSeq == Init /\ [][NextSeq]_vars

(* Two requests in flight at the same time.                               *)
NextConc ==
  \/ \E c \in CallIds, body \in TestBodies2 : TestConnectionReq(c, body, TRUE)
  \/ \E c \in CallIds, body \in FetchBodies2 : FetchEmailsReq(c, body, TRUE)
  \/ Events(Headers2, 1, FALSE)
  \/ Tick

SpecConc == Init /\ [][NextConc]_vars

(***************************************************************************)
(* InvoiceService.  A partial score is a number of tenths, a weight a      *)
(* number of tenths, the confidence and the threshold numbers of           *)
(* hundredths.  A string is the sequence of its characters; a character of *)
(* a Chinese keyword is written by its reading ("fa", "piao" are the two   *)
(* characters of the word for invoice).                                    *)
(***************************************************************************)
SubjectWeight == 5
SenderWeight == 2
ContentWeight == 1
AttachmentWeight == 2
ConfidenceThreshold == 30
MaxScore == 10
DetectOkTtlMinutes == 30
DetectErrTtlMinutes == 5

getDefaultKeywords ==
  [chinese |->
     [subjects |-> <<<<"fa", "piao">>, <<"dian", "zi", "fa", "piao">>, <<"zeng", "zhi", "shui", "fa", "piao">>>>,
      senders |-> <<<<"cai", "wu">>, <<"kuai", "ji">>, <<"kai", "piao">>>>,
      amounts |-> <<<<"jin", "e">>, <<"zong", "ji">>, <<"he", "ji">>>>],
   english |->
     [subjects |-> <<<<"i", "n", "v", "o", "i", "c", "e">>, <<"b", "i", "l", "l">>, <<"r", "e", "c", "e", "i", "p", "t">>>>,
      senders |-> <<<<"f", "i", "n", "a", "n", "c", "e">>, <<"a", "c", "c", "o", "u", "n", "t", "i", "n", "g">>, <<"b", "i", "l", "l", "i", "n", "g">>>>,
      amounts |-> <<<<"a", "m", "o", "u", "n", "t">>, <<"t", "o", "t", "a", "l">>, <<"s", "u", "m">>>>]]

(* Math.min(score, 1.0); NoCap is the score without it.                   *)
NoCap(score) == score

Cap(score) == IF score > MaxScore THEN MaxScore ELSE score

analyzeSubject(subject) ==
  IF subject = <<>> THEN 0
  ELSE
    LET kw == getDefaultKeywords
        subjectLower == toLowerCase(subject)
        chinese == {i \in DOMAIN kw.chinese.subjects :
                      includes(subject, kw.chinese.subjects[i])}
        english == {i \in DOMAIN kw.english.subjects :
                      includes(subjectLower, toLowerCase(kw.english.subjects[i]))}
        commonInvoiceKeywords ==
          <<<<"fa", "piao">>, <<"dian", "zi", "fa", "piao">>, <<"zeng", "zhi", "shui", "fa", "piao">>, <<"i", "n", "v", "o", "i", "c", "e">>, <<"b", "i", "l", "l">>, <<"r", "e", "c", "e", "i", "p", "t">>>>
        common == \E i \in DOMAIN commonInvoiceKeywords :
                    \/ includes(subject, commonInvoiceKeywords[i])
                    \/ includes(subjectLower, toLowerCase(commonInvoiceKeywords[i]))
    IN Cap(5 * Cardinality(chinese) + 4 * Cardinality(english)
           + (IF common THEN 6 ELSE 0))

analyzeSender(sender) ==
  IF sender = <<>> THEN 0
  ELSE
    LET kw == getDefaultKeywords
        senderLower == toLowerCase(sender)
        allSenderKeywords == kw.chinese.senders \o kw.english.senders
        found == {i \in DOMAIN allSenderKeywords :
                    includes(senderLower, toLowerCase(allSenderKeywords[i]))}
        invoiceDomains ==
          <<<<"t", "a", "x", ".", "g", "o", "v", ".", "c", "n">>, <<"c", "h", "i", "n", "a", "t", "a", "x", ".", "g", "o", "v", ".", "c", "n">>, <<"t", "a", "o", "b", "a", "o", ".", "c", "o", "m">>, <<"t", "m", "a", "l", "l", ".", "c", "o", "m">>,
            <<"j", "d", ".", "c", "o", "m">>, <<"i", "n", "v", "o", "i", "c", "e">>, <<"b", "i", "l", "l", "i", "n", "g">>, <<"f", "i", "n", "a", "n", "c", "e">>>>
        domain == \E i \in DOMAIN invoiceDomains :
                    includes(senderLower, invoiceDomains[i])
    IN Cap(4 * Cardinality(found) + (IF domain THEN 6 ELSE 0))

(* this.patterns[name].test(content): the five regular expressions of the *)
(* constructor, all with the flag i, searched at every position.  "ma" is  *)
(* optional after "fa piao hao"; "fwcolon" is the full-width colon.        *)
PatternTest(name, content) ==
  LET n == Len(content)
      Ch(p) == IF p >= 1 /\ p <= n THEN LowerChar(content[p]) ELSE "end"
      LitAt(p, lit) == \A i \in 1 .. Len(lit) : Ch(p + i - 1) = LowerChar(lit[i])
      SkipOpt(p, chars) == IF Ch(p) \in chars THEN p + 1 ELSE p
      SkipAll(p, chars) ==
        CHOOSE q \in p .. (n + 1) :
          /\ \A i \in p .. (q - 1) : Ch(i) \in chars
          /\ Ch(q) \notin chars
      Colon == {":", "fwcolon"}
      Space == {" ", "nl"}
      Digit == {"0", "1", "2", "3", "4", "5", "6", "7", "8", "9"}
      AlNum == Digit \cup {"a", "b", "c", "d", "e", "f", "g", "h", "i", "j", "k", "l", "m", "n", "o", "p", "q", "r", "s", "t", "u", "v", "w", "x", "y", "z"}
      Value(p) == SkipAll(SkipOpt(p, Colon), Space)
      invoiceNumber(p) ==
        \/ /\ LitAt(p, <<"fa", "piao", "hao">>)
           /\ Ch(Value(SkipOpt(p + 3, {"ma"}))) \in AlNum
        \/ /\ LitAt(p, <<"i", "n", "v", "o", "i", "c", "e">>)
           /\ LET q == SkipAll(p + 7, Space)
              IN \/ LitAt(q, <<"n", "o">>) /\ Ch(Value(SkipOpt(q + 2, {"."}))) \in AlNum
                 \/ LitAt(q, <<"n", "u", "m", "b", "e", "r">>) /\ Ch(Value(q + 6)) \in AlNum
      amount(p) ==
        \E w \in {<<"jin", "e">>, <<"zong", "ji">>, <<"he", "ji">>, <<"a", "m", "o", "u", "n", "t">>, <<"t", "o", "t", "a", "l">>} :
          /\ LitAt(p, w)
          /\ Ch(SkipOpt(Value(p + Len(w)), {"fwyen", "$", "yen"})) \in Digit \cup {","}
      taxNumber(p) ==
        \/ LitAt(p, <<"shui", "hao">>) /\ Ch(Value(p + 2)) \in AlNum
        \/ /\ LitAt(p, <<"t", "a", "x">>)
           /\ LET q == SkipAll(p + 3, Space)
              IN LitAt(q, <<"i", "d">>) /\ Ch(Value(q + 2)) \in AlNum
      DateAt(q) ==
        /\ \A i \in 0 .. 3 : Ch(q + i) \in Digit
        /\ Ch(q + 4) \in {"-", "/", "nian"}
        /\ Ch(q + 5) \in Digit
        /\ LET r == SkipOpt(q + 6, Digit)
           IN Ch(r) \in {"-", "/", "yue"} /\ Ch(r + 1) \in Digit
      date(p) ==
        \/ LitAt(p, <<"kai", "piao", "ri", "qi">>) /\ DateAt(Value(p + 4))
        \/ /\ LitAt(p, <<"i", "n", "v", "o", "i", "c", "e">>)
           /\ LET q == SkipAll(p + 7, Space)
              IN LitAt(q, <<"d", "a", "t", "e">>) /\ DateAt(Value(q + 4))
      NameAt(q) ==
        \E r \in (q + 1) .. n :
          /\ \A i \in q .. (r - 1) : Ch(i) \notin {"fwcomma", ",", "fwstop", ".", "nl"}
          /\ \E suffix \in {<<"you", "xian", "gong", "si">>, <<"ji", "tuan">>,
                            <<"gu", "fen", "you", "xian", "gong", "si">>,
                            <<"l", "t", "d">>, <<"i", "n", "c">>, <<"c", "o", "r", "p">>} : LitAt(r, suffix)
      company(p) ==
        \E w \in {<<"kai", "piao", "fang">>, <<"fa", "piao", "tai", "tou">>, <<"i", "s", "s", "u", "e", "r">>} :
          /\ LitAt(p, w)
          /\ \E q1 \in {p + Len(w), SkipOpt(p + Len(w), Colon)} :
               \E q \in q1 .. SkipAll(q1, Space) : NameAt(q)
  IN \E p \in 1 .. n :
       CASE name = "invoiceNumber" -> invoiceNumber(p)
         [] name = "amount" -> amount(p)
         [] name = "taxNumber" -> taxNumber(p)
         [] name = "date" -> date(p)
         [] name = "company" -> company(p)

analyzeContent(content) ==
  IF content = <<>> THEN 0
  ELSE
    LET kw == getDefaultKeywords
        contentLower == toLowerCase(content)
        allAmountKeywords == kw.chinese.amounts \o kw.english.amounts
        keyword == \E i \in DOMAIN allAmountKeywords :
                     \/ includes(content, allAmountKeywords[i])
                     \/ includes(contentLower, toLowerCase(allAmountKeywords[i]))
    IN Cap((IF PatternTest("invoiceNumber", content) THEN 4 ELSE 0)
           + (IF PatternTest("amount", content) THEN 3 ELSE 0)
           + (IF PatternTest("taxNumber", content) THEN 2 ELSE 0)
           + (IF PatternTest("date", content) THEN 2 ELSE 0)
           + (IF PatternTest("company", content) THEN 1 ELSE 0)
           + (IF keyword THEN 1 ELSE 0))

endsWith(str, suffix) ==
  /\ Len(suffix) <= Len(str)
  /\ \A i \in 1 .. Len(suffix) : str[Len(str) - Len(suffix) + i] = suffix[i]

analyzeAttachments(email) ==
  IF ~email.hasAttachments \/ email.attachments = <<>> THEN 0
  ELSE
    LET invoiceFilenames ==
          <<<<"i", "n", "v", "o", "i", "c", "e">>, <<"b", "i", "l", "l">>, <<"r", "e", "c", "e", "i", "p", "t">>, <<"fa", "piao">>, <<"zhang", "dan">>, <<"shou", "ju">>>>
        One(attachment) ==
          LET filename == toLowerCase(attachment.filename)
              contentType == toLowerCase(attachment.contentType)
          IN (IF includes(contentType, <<"p", "d", "f">>) \/ endsWith(filename, <<".", "p", "d", "f">>)
              THEN 8 ELSE 0)
             + (IF \E i \in DOMAIN invoiceFilenames :
                     includes(filename, toLowerCase(invoiceFilenames[i]))
                THEN 6 ELSE 0)
             + (IF \/ includes(contentType, <<"w", "o", "r", "d">>) \/ includes(contentType, <<"e", "x", "c", "e", "l">>)
                   \/ endsWith(filename, <<".", "d", "o", "c">>) \/ endsWith(filename, <<".", "d", "o", "c", "x">>)
                   \/ endsWith(filename, <<".", "x", "l", "s">>) \/ endsWith(filename, <<".", "x", "l", "s", "x">>)
                THEN 3 ELSE 0)
        RECURSIVE Sum(_)
        Sum(i) == IF i = 0 THEN 0 ELSE Sum(i - 1) + One(email.attachments[i])
    IN Cap(Sum(Len(email.attachments)))

(***************************************************************************)
(* Detection.  A message id is a string: the n-th value of uuidv4() is the *)
(* number n >= 1, a string made up by a client is a number <= 0.  The      *)
(* fields to and date of a message are read by nothing in the detection    *)
(* and are left out, as are the optional fields extractInvoiceInfo copies  *)
(* from the text (invoiceNumber, amount, invoiceDate, issuer).             *)
(***************************************************************************)
getInvoiceDetectionKey(emailId) == [kind |-> "invoice_detection", id |-> emailId]

(* The InvoiceService module holds a CacheService of its own.             *)
InvoiceCache(s) == [s EXCEPT !.cache = s.invCache]

InvoiceCacheSet(s, key, data, ttlMinutes) ==
  [s EXCEPT !.invCache = CacheSet(InvoiceCache(s), key, data, ttlMinutes).cache]

(* Joi.string().required() refuses the empty string, array().min(1) the   *)
(* empty list; AnyEmails is a schema that refuses nothing.                 *)
AnyEmails(body) == TRUE

invoiceDetectionSchema(body) ==
  /\ Len(body.emails) >= 1
  /\ \A i \in DOMAIN body.emails :
       LET e == body.emails[i]
       IN e.subject # <<>> /\ e.from # <<>> /\ e.body # <<>>

NewDetection(route, emails) ==
  [route |-> route, emails |-> emails, idx |-> 1, results |-> <<>>, pc |-> "detect",
   status |-> 0, pending |-> <<>>]

Scores(email) ==
  [subject |-> analyzeSubject(email.subject), sender |-> analyzeSender(email.from),
   content |-> analyzeContent(email.body), attachment |-> analyzeAttachments(email)]

TotalScore(scores) ==
  scores.subject * SubjectWeight + scores.sender * SenderWeight
    + scores.content * ContentWeight + scores.attachment * AttachmentWeight

(* uuidv4() is called twice; the second value becomes the id.             *)
(* extractInvoiceInfoUnscored is a record that drops the score.            *)
extractInvoiceInfoUnscored(s, email, confidenceScore) ==
  [emailId |-> email.id, confidenceScore |-> 0, id |-> s.uuids + 2]

extractInvoiceInfo(s, email, confidenceScore) ==
  [emailId |-> email.id, confidenceScore |-> confidenceScore, id |-> s.uuids + 2]

DetectionResult(email, scores, totalScore, invoiceInfo) ==
  [emailId |-> email.id, email |-> email,
   isInvoice |-> totalScore >= ConfidenceThreshold, confidence |-> totalScore,
   scores |-> scores, invoiceInfo |-> invoiceInfo, error |-> ""]

(* The result of the catch block; ErrorResultFlagged is that result with  *)
(* the classification left set.                                            *)
ErrorResultFlagged(email, message) ==
  [emailId |-> email.id, email |-> email, isInvoice |-> TRUE, confidence |-> 0,
   scores |-> [subject |-> 0, sender |-> 0, content |-> 0, attachment |-> 0],
   invoiceInfo |-> <<>>, error |-> message]

ErrorResult(email, message) ==
  [emailId |-> email.id, email |-> email, isInvoice |-> FALSE, confidence |-> 0,
   scores |-> [subject |-> 0, sender |-> 0, content |-> 0, attachment |-> 0],
   invoiceInfo |-> <<>>, error |-> message]

(* The result is cached under the id of the message and returned to the   *)
(* loop of the controller, which pushes it.  DetectedUnlessError is a loop *)
(* that pushes no result for a message whose detection threw.              *)
DetectedUnlessError(s, d, result, ttlMinutes) ==
  [InvoiceCacheSet(s, getInvoiceDetectionKey(result.emailId), result, ttlMinutes)
     EXCEPT !.dets[d].results = IF result.error # "" THEN @ ELSE Append(@, result),
            !.dets[d].idx = @ + 1,
            !.dets[d].pc = "detect", !.dets[d].pending = <<>>]

Detected(s, d, result, ttlMinutes) ==
  [InvoiceCacheSet(s, getInvoiceDetectionKey(result.emailId), result, ttlMinutes)
     EXCEPT !.dets[d].results = Append(@, result), !.dets[d].idx = @ + 1,
            !.dets[d].pc = "detect", !.dets[d].pending = <<>>]

(* saveInvoiceInfo draws the id of the file, then returns at once if the  *)
(* storage is disabled and awaits writeJsonFile otherwise;                 *)
(* saveInvoiceInfoAlways writes whatever the configuration says.           *)
saveInvoiceInfoAlways(s, d, result) ==
  [s EXCEPT !.uuids = @ + 1, !.dets[d].pc = "saveInvoiceInfo",
            !.dets[d].pending = <<result>>]

saveInvoiceInfo(s, d, result) ==
  LET s1 == [s EXCEPT !.uuids = @ + 1]
  IN IF ~s.enableLocalStorage THEN Detected(s1, d, result, DetectOkTtlMinutes)
     ELSE [s1 EXCEPT !.dets[d].pc = "saveInvoiceInfo", !.dets[d].pending = <<result>>]

(* detectSingleInvoice on the message the loop of request d has reached,  *)
(* up to its first await on the file system.                               *)
detectSingleInvoice(s, d) ==
  LET email == s.dets[d].emails[s.dets[d].idx]
      cacheKey == getInvoiceDetectionKey(email.id)
      s0 == [s EXCEPT !.invCache = CacheAfterGet(InvoiceCache(s), cacheKey).cache]
      scores == Scores(email)
      totalScore == TotalScore(scores)
      isInvoice == totalScore >= ConfidenceThreshold
      invoiceInfo == extractInvoiceInfo(s0, email, totalScore)
  IN IF CacheHit(InvoiceCache(s), cacheKey)
     THEN [s0 EXCEPT !.dets[d].results = Append(@, CacheData(InvoiceCache(s), cacheKey)),
                     !.dets[d].idx = @ + 1]
     ELSE IF isInvoice
     THEN saveInvoiceInfo([s0 EXCEPT !.uuids = @ + 2], d,
                          DetectionResult(email, scores, totalScore, <<invoiceInfo>>))
     ELSE Detected(s0, d, DetectionResult(email, scores, totalScore, <<>>),
                   DetectOkTtlMinutes)

(* for (const email of emails) results.push(await detectSingleInvoice(..)) *)
(* and then the response.                                                  *)
RECURSIVE DetectLoop(_, _)
DetectLoop(s, d) ==
  IF s.dets[d].pc # "detect" THEN s
  ELSE IF s.dets[d].idx > Len(s.dets[d].emails)
  THEN [s EXCEPT !.dets[d].pc = "done", !.dets[d].status = 200]
  ELSE DetectLoop(detectSingleInvoice(s, d), d)

(* A request is admitted when the requests before it have been answered;  *)
(* MaxDetections bounds the requests and the messages they submit.  The    *)
(* answered requests stay on record if keep is set.                        *)
DetectAdmitted(s, route, emails, keep) ==
  [s EXCEPT !.dets = Append(IF keep THEN @ ELSE <<>>, NewDetection(route, emails)),
            !.submitted = @ + (IF emails = <<>> THEN 1 ELSE Len(emails))]

(* POST /detect-invoices                                                   *)
DetectInvoicesReq(body, keep) ==
  /\ ~crashed
  /\ \A d \in DOMAIN dets : dets[d].pc = "done"
  /\ submitted < MaxDetections /\ submitted + Len(body.emails) <= MaxDetections
  /\ LET s1 == DetectAdmitted(St, "detect-invoices", body.emails, keep)
         d == Len(s1.dets)
     IN Becomes(IF invoiceDetectionSchema(body) THEN DetectLoop(s1, d)
                ELSE [s1 EXCEPT !.dets[d].pc = "done", !.dets[d].status = 400])

(* POST /fetch-and-detect and POST /fetch-invoice-emails, from the point  *)
(* where fetchEmails has returned success: parseEmailMessage gave every    *)
(* message a fresh uuid and set hasAttachments from the attachment list.   *)
FetchAndDetectReq(contents, keep) ==
  /\ ~crashed
  /\ \A d \in DOMAIN dets : dets[d].pc = "done"
  /\ submitted < MaxDetections /\ submitted + Len(contents) <= MaxDetections
  /\ LET emails == [i \in DOMAIN contents |->
                      [contents[i] EXCEPT !.id = uuids + i,
                                          !.hasAttachments = contents[i].attachments # <<>>]]
         s1 == DetectAdmitted([St EXCEPT !.uuids = @ + Len(contents)],
                              "fetch-and-detect", emails, keep)
     IN Becomes(DetectLoop(s1, Len(s1.dets)))

(* writeJsonFile settles: the record is on disk, or the write throws and  *)
(* the catch block of detectSingleInvoice builds the result.               *)
InvoiceSaveDone(d, ok) ==
  /\ ~crashed
  /\ dets[d].pc = "saveInvoiceInfo"
  /\ LET result == dets[d].pending[1]
     IN Becomes(DetectLoop(
          IF ok THEN Detected([St EXCEPT !.invoices = Append(@, result.invoiceInfo[1])],
                              d, result, DetectOkTtlMinutes)
          ELSE Detected(St, d, ErrorResult(result.email, "write failed"),
                        DetectErrTtlMinutes), d))

(* More time passes than any entry of the detection cache lives.          *)
Elapse ==
  LET jump == DetectOkTtlMinutes * TicksPerMinute + 1
  IN /\ ~crashed
     /\ now < NowStart + MaxJumps * jump
     /\ Becomes([St EXCEPT !.now = @ + jump])

(* The messages of the requests: what clients post to /detect-invoices   *)
(* (client), what a fetch hands to the detection (fetched, before the ids *)
(* are drawn), the bodies of the requests (bodies), and the bodies of the  *)
(* requests that run next to a fetch (store).                              *)
DetectInputs ==
  LET Email(id, subject, from, body, hasAttachments, attachments) ==
        [id |-> id, subject |-> subject, from |-> from, body |-> body,
         hasAttachments |-> hasAttachments, attachments |-> attachments]
      PdfAttachment ==
        [filename |-> <<"1", ".", "p", "d", "f">>,
         contentType |-> <<"a", "p", "p", "l", "i", "c", "a", "t", "i", "o", "n", "/",
                           "p", "d", "f">>]
      InvoicePdf(id) ==
        Email(id, <<"fa", "piao">>, <<"a">>, <<"h", "i">>, TRUE, <<PdfAttachment>>)
      Unflagged(id) ==
        Email(id, <<"I", "n", "v", "o", "i", "c", "e">>, <<"a">>, <<"h", "i">>, FALSE,
              <<PdfAttachment>>)
      Weak(id) ==
        Email(id, <<"h", "i">>, <<"j", "d", ".", "c", "o", "m">>,
              <<"T", "o", "t", "a", "l", " ", "5">>, FALSE, <<>>)
      Empty(id) == Email(id, <<>>, <<>>, <<>>, FALSE, <<>>)
      SeqsUpTo(S, n) == UNION {[1 .. k -> S] : k \in 0 .. n}
      client == {Weak(0), InvoicePdf(0), Unflagged(0 - 1)}
      fetched == {Empty(0), InvoicePdf(0)}
  IN [client |-> client,
      fetched |-> SeqsUpTo(fetched, MaxDetections),
      bodies |-> {[emails |-> es] : es \in SeqsUpTo(client, MaxDetections)}
                   \cup {[emails |-> <<Empty(0)>>]},
      store |-> {[emails |-> <<InvoicePdf(0)>>], [emails |-> <<Weak(0 - 1)>>]}]

(* Detection requests one after the other; the server keeps no record of *)
(* the answered ones.                                                      *)
NextDetect ==
  \/ \E body \in DetectInputs.bodies : DetectInvoicesReq(body, FALSE)
  \/ \E contents \in DetectInputs.fetched : FetchAndDetectReq(contents, FALSE)
  \/ \E d \in DOMAIN dets, ok \in BOOLEAN : InvoiceSaveDone(d, ok)
  \/ Elapse

SpecDetect == Init /\ [][NextDetect]_vars

(* The same requests, with the answered ones kept on record.               *)
NextDetectLog ==
  \/ \E body \in DetectInputs.bodies : DetectInvoicesReq(body, TRUE)
  \/ \E contents \in DetectInputs.fetched : FetchAndDetectReq(contents, TRUE)
  \/ \E d \in DOMAIN dets, ok \in BOOLEAN : InvoiceSaveDone(d, ok)
  \/ Elapse

SpecDetectLog == Init /\ [][NextDetectLog]_vars

(* A fetch and detection requests on the same server, interleaved: the    *)
(* requests that reach the storage.                                        *)
NextStore ==
  \/ \E body \in FetchBodies2 : FetchEmailsReq(1, body, FALSE)
  \/ Events(Headers2, 1, FALSE)
  \/ \E body \in DetectInputs.store : DetectInvoicesReq(body, TRUE)
  \/ \E d \in DOMAIN dets, ok \in BOOLEAN : InvoiceSaveDone(d, ok)

SpecStore == Init /\ [][NextStore]_vars

(***************************************************************************)
(* The keyword configuration.  DataService.updateInvoiceKeywords stores    *)
(* nothing and DataService.getInvoiceKeywords returns the built-in lists,  *)
(* which are those of getDefaultKeywords; it never throws, so the catch    *)
(* block of InvoiceService.getInvoiceKeywords is not reached.              *)
(***************************************************************************)
KeywordsTtlMinutes == 10

getInvoiceKeywordsKey == [kind |-> "invoice_keywords", id |-> 0]

(* PUT /invoice-keywords: the body goes to the service unvalidated; the    *)
(* service awaits the DataService and deletes the cache entry.             *)
UpdateInvoiceKeywordsReq(cfg) ==
  /\ ~crashed
  /\ Becomes([St EXCEPT !.invCache = {e \in @ : e.key # getInvoiceKeywordsKey},
                        !.keywords = [updated |-> <<cfg>>, returned |-> <<>>]])

(* GET /invoice-keywords: the cached configuration, or that of the        *)
(* DataService, cached for ten minutes.                                    *)
GetInvoiceKeywordsReq ==
  /\ ~crashed
  /\ LET s0 == [St EXCEPT !.invCache =
                   CacheAfterGet(InvoiceCache(St), getInvoiceKeywordsKey).cache]
         hit == CacheHit(InvoiceCache(St), getInvoiceKeywordsKey)
         got == IF hit THEN CacheData(InvoiceCache(St), getInvoiceKeywordsKey)
                ELSE getDefaultKeywords
         s1 == IF hit THEN s0
               ELSE InvoiceCacheSet(s0, getInvoiceKeywordsKey, got, KeywordsTtlMinutes)
     IN Becomes([s1 EXCEPT !.keywords.returned =
                   IF St.keywords.updated # <<>> /\ @ = <<>> THEN <<got>> ELSE @])

(* The configurations clients send: the built-in one and one with a        *)
(* further English subject keyword.                                        *)
KeywordConfigs ==
  {getDefaultKeywords,
   [getDefaultKeywords EXCEPT !.english.subjects = Append(@, <<"t", "a", "x">>)]}

(* The routes of the InvoiceService on one server.                         *)
NextKeywords ==
  \/ \E cfg \in KeywordConfigs : UpdateInvoiceKeywordsReq(cfg)
  \/ GetInvoiceKeywordsReq
  \/ \E body \in DetectInputs.store : DetectInvoicesReq(body, FALSE)
  \/ \E d \in DOMAIN dets, ok \in BOOLEAN : InvoiceSaveDone(d, ok)
  \/ Tick
  \/ Elapse

SpecKeywords == Init /\ [][NextKeywords]_vars

(***************************************************************************)
(* The CacheService under the calls of its clients.  Every method is       *)
(* synchronous, so the calls of the operations in flight interleave as     *)
(* whole calls; c is the operation that makes the call.  probe.last holds, *)
(* for each key, the most recent set and whether a delete or clear has     *)
(* touched the key since; probe.op holds the most recent call with what it *)
(* returned.                                                               *)
(***************************************************************************)
CacheInputs ==
  [keys |-> {"k1", "k2"}, values |-> {"v1", "v2"}, ttls |-> {0, 1}]

Probed(s, c, kind, key, value, flag) ==
  [s EXCEPT !.probe.op =
     <<[kind |-> kind, by |-> c, key |-> key, at |-> s.now, value |-> value,
        flag |-> flag]>>]

CacheSetCall(c, key, data, ttlMinutes) ==
  /\ ~crashed
  /\ Becomes([Probed(CacheSet(St, key, data, ttlMinutes), c, "set", key, <<data>>, FALSE)
               EXCEPT !.probe.last = {l \in @ : l.key # key}
                 \cup {[key |-> key, data |-> data, at |-> now, ttlMinutes |-> ttlMinutes,
                         removed |-> FALSE]}])

CacheGetCall(c, key) ==
  /\ ~crashed
  /\ Becomes(Probed(CacheAfterGet(St, key), c, "get", key,
                    IF CacheHit(St, key) THEN <<CacheData(St, key)>> ELSE <<>>,
                    CacheHit(St, key)))

CacheDeleteCall(c, key) ==
  /\ ~crashed
  /\ Becomes([Probed(CacheDelete(St, key), c, "delete", key,
                     IF CacheHit(St, key) THEN <<CacheData(St, key)>> ELSE <<>>,
                     CacheDeleted(St, key))
               EXCEPT !.probe.last =
                 {IF l.key = key THEN [l EXCEPT !.removed = TRUE] ELSE l : l \in @}])

CacheClearCall(c) ==
  /\ ~crashed
  /\ Becomes([Probed(CacheClear(St), c, "clear", "", <<>>, FALSE)
               EXCEPT !.probe.last = {[l EXCEPT !.removed = TRUE] : l \in @}])

(* The interval timer fires; the flag is cleanedCount > 0.                 *)
Sweep ==
  /\ ~crashed
  /\ Becomes(Probed(cleanup(St), 0, "cleanup", "", <<>>, cleanup(St).cache # cache))

Pass ==
  /\ ~crashed
  /\ now < NowStart + MaxWait
  /\ Becomes([St EXCEPT !.now = @ + 1])

NextCache ==
  \/ \E c \in CallIds, key \in CacheInputs.keys, data \in CacheInputs.values,
        ttlMinutes \in CacheInputs.ttls : CacheSetCall(c, key, data, ttlMinutes)
  \/ \E c \in CallIds, key \in CacheInputs.keys : CacheGetCall(c, key)
  \/ \E c \in CallIds, key \in CacheInputs.keys : CacheDeleteCall(c, key)
  \/ \E c \in CallIds : CacheClearCall(c)
  \/ Sweep
  \/ Pass

SpecCache == Init /\ [][NextCache]_vars

(***************************************************************************)
(* InvoiceService.getInvoiceStats.  A record carries an amount, a          *)
(* confidence score (in hundredths) and an invoice date or not (<<>>).  A  *)
(* date is a Date object: extractInvoiceInfo stores moment(...).toDate(),  *)
(* which is an Invalid Date (getTime() is NaN) when the text that matched  *)
(* the date pattern is no calendar date.  The mean is the pair of the sum  *)
(* and the count.                                                          *)
(***************************************************************************)
getInvoiceStats(list) ==
  LET n == Len(list)
      RECURSIVE Sum(_, _)
      Sum(f, i) == IF i = 0 THEN 0
                   ELSE Sum(f, i - 1) + (IF list[i][f] = <<>> THEN 0 ELSE list[i][f][1])
      dated == {i \in 1 .. n : list[i].invoiceDate # <<>>}
      date(i) == list[i].invoiceDate[1]
      (* sort((a, b) => a.getTime() - b.getTime()): with valid dates the    *)
      (* first is a least and the last a greatest one; a NaN difference      *)
      (* makes the comparator inconsistent and the order is whatever the     *)
      (* engine leaves: any two of the dates end up first and last.          *)
      ends == IF \A i \in dated : date(i).valid
              THEN {[start |-> <<date(i)>>, end |-> <<date(j)>>] : i, j \in dated}
                   \cap {r \in [start : {<<date(k)>> : k \in dated},
                                 end : {<<date(k)>> : k \in dated}] :
                           \A k \in dated : /\ r.start[1].time <= date(k).time
                                             /\ r.end[1].time >= date(k).time}
              ELSE UNION {{[start |-> <<date(i)>>, end |-> <<date(j)>>] :
                             j \in IF Cardinality(dated) = 1 THEN dated
                                   ELSE dated \ {i}} : i \in dated}
  IN IF n = 0
     THEN {[totalCount |-> 0, totalAmount |-> 0,
            averageConfidence |-> [sum |-> 0, count |-> 1],
            dateRange |-> [start |-> <<>>, end |-> <<>>]]}
     ELSE {[totalCount |-> n, totalAmount |-> Sum("amount", n),
            averageConfidence |-> [sum |-> Sum("confidenceScore", n), count |-> n],
            dateRange |-> r] :
             r \in IF dated = {} THEN {[start |-> <<>>, end |-> <<>>]} ELSE ends}

(* The records of the calls: with and without an amount and a date, the    *)
(* date an earlier or a later day or an Invalid Date.                      *)
InvoiceRecords ==
  [amount : {<<>>, <<2>>}, confidenceScore : {<<30>>, <<85>>},
   invoiceDate : {<<>>, <<[valid |-> TRUE, time |-> 1]>>, <<[valid |-> TRUE, time |-> 2]>>,
                  <<[valid |-> FALSE, time |-> 0]>>}]

GetInvoiceStatsCall(list) ==
  /\ ~crashed
  /\ stats = <<>>
  /\ \E result \in getInvoiceStats(list) :
       Becomes([St EXCEPT !.stats = <<[list |-> list, result |-> result]>>])

NextStats ==
  \E k \in 0 .. MaxInvoices : \E list \in [1 .. k -> InvoiceRecords] :
    GetInvoiceStatsCall(list)

SpecStats == Init /\ [][NextStats]_vars

(***************************************************************************)
(* InvoiceService.detectInvoices, the batch path.  It scores a message as  *)
(* detectSingleInvoice does, with the weights of the constructor, and      *)
(* compares with config.invoice.confidenceThreshold, which is read from    *)
(* the environment (INVOICE_CONFIDENCE_THRESHOLD, 0.5 when unset); it      *)
(* reads no cache and saves nothing; extractInvoiceInfo draws two uuids    *)
(* for every message.  A message carries its optional                      *)
(* isInvoice flag (EmailMessage.isInvoice).                                *)
(***************************************************************************)
ConfigConfidenceThreshold == 50

detectInvoices(emails, threshold) ==
  LET analyzeEmail(confidenceScore) ==
        [isInvoice |-> confidenceScore >= threshold,
         confidenceScore |-> confidenceScore]
      Qualifies(detection) ==
        detection.isInvoice /\ detection.confidenceScore >= threshold
      Result(qualifies) ==
        LET marked == [i \in DOMAIN emails |->
                         IF qualifies[i] THEN [emails[i] EXCEPT !.isInvoice = <<TRUE>>]
                         ELSE emails[i]]
            kept == SelectSeq([i \in DOMAIN emails |-> i], LAMBDA i : qualifies[i])
        IN [emails |-> marked,
            invoices |-> [j \in DOMAIN kept |-> marked[kept[j]]],
            count |-> Len(kept),
            details |-> [j \in DOMAIN kept |->
                           [emailId |-> emails[kept[j]].id, isInvoice |-> TRUE,
                            confidence |-> 80]]]
  IN Result([i \in DOMAIN emails |->
               Qualifies(analyzeEmail(TotalScore(Scores(emails[i]))))])

(* The messages of a batch: no signal but the sender's domain; a sender    *)
(* and a PDF, no subject keyword; an invoice by subject and attachment.    *)
(* Each with the flag absent, false or true.  The threshold is the one of  *)
(* the constructor or the default of the configuration.                    *)
BatchInputs ==
  LET Pdf == [filename |-> <<"1", ".", "p", "d", "f">>,
              contentType |-> <<"a", "p", "p", "l", "i", "c", "a", "t", "i", "o", "n", "/",
                                "p", "d", "f">>]
      Email(id, subject, from, hasAttachments, attachments, flag) ==
        [id |-> id, subject |-> subject, from |-> from, body |-> <<"h", "i">>,
         hasAttachments |-> hasAttachments, attachments |-> attachments,
         isInvoice |-> flag]
      flags == {<<>>, <<FALSE>>, <<TRUE>>}
  IN [emails |->
        {Email(0, <<"h", "i">>, <<"j", "d", ".", "c", "o", "m">>, FALSE, <<>>, f) :
           f \in flags}
        \cup {Email(0 - 1, <<"h", "i">>, <<"f", "i", "n", "a", "n", "c", "e">>, TRUE,
                    <<Pdf>>, f) : f \in flags}
        \cup {Email(0 - 2, <<"fa", "piao">>, <<"a">>, TRUE, <<Pdf>>, f) : f \in flags},
      thresholds |-> {ConfidenceThreshold, ConfigConfidenceThreshold}]

DetectInvoicesCall(emails, threshold) ==
  /\ ~crashed
  /\ batch = <<>>
  /\ Becomes([St EXCEPT !.uuids = @ + 2 * Len(emails),
                        !.batch = <<[threshold |-> threshold, emails |-> emails,
                                     result |-> detectInvoices(emails, threshold)]>>])

NextBatch ==
  \E k \in 1 .. MaxBatch, threshold \in BatchInputs.thresholds :
    \E emails \in [1 .. k -> BatchInputs.emails] : DetectInvoicesCall(emails, threshold)

SpecBatch == Init /\ [][NextBatch]_vars

(***************************************************************************)
(* The properties.                                                         *)
(***************************************************************************)
Returned(c) == call[c].pc = "done"

FetchSucceeded(c) ==
  Returned(c) /\ call[c].kind = "fetch" /\ call[c].result.success

Range(seq) == {seq[i] : i \in 1 .. Len(seq)}

OwnedBy(c) == {x \in ConnIds : conns[x].owner = c}

(* C1: every testConnection or fetchEmails call that opened a connection   *)
(* has ended it and released the handle of the service by the time it      *)
(* returns its result, on the success path and on every error path.        *)
C1_TornDownBeforeReturn ==
  \A c \in CallIds :
    Returned(c) =>
      \A x \in OwnedBy(c) : conns[x].ended /\ imap # x /\ pop3 # x

(* C2: with two calls in flight at the same time, no call issues a command *)
(* on, or closes, a connection the other opened, and once both calls have  *)
(* returned every connection that was opened is closed.                    *)
C2_OwnConnectionOnly ==
  (\E c \in CallIds : call[c].overlapped) =>
    /\ \A x \in ConnIds :
         /\ conns[x].usedBy \subseteq {conns[x].owner}
         /\ conns[x].closedBy \subseteq {conns[x].owner}
    /\ (\A c \in CallIds : Returned(c)) => \A x \in ConnIds : conns[x].ended

(* C3: testConnection answers success = true only to a call whose own      *)
(* credentials the server accepts; a call with rejected credentials gets   *)
(* success = false, whatever calls came before it.                         *)
C3_SuccessMeansTheseCredentials ==
  \A c \in CallIds :
    (Returned(c) /\ call[c].kind = "test" /\ call[c].result.success)
      => ServerAccepts(call[c].body.email_address, call[c].body.password)

(* C4: fetchEmails answers any authentication, network or malformed        *)
(* response failure, after one connection attempt, with success = false,   *)
(* no messages, total = 0 and a message that carries the reason.           *)
C4_FailureIsReported ==
  \A c \in CallIds :
    (Returned(c) /\ call[c].kind = "fetch"
       /\ call[c].failure \in {"auth", "network", "malformed"})
      => /\ ~call[c].result.success
         /\ call[c].result.emails = <<>>
         /\ call[c].result.total = 0
         /\ call[c].result.note # ""
         /\ call[c].connects = 1

(* The filters of a query, stated on one message.                          *)
PassesTime(e, q, today) ==
  IF q.since.given
  THEN MomentIsValid(q.since) => e.date >= MomentTicks(q.since)
  ELSE e.date >= today

PassesFromTo(e, q) ==
  /\ q.from # <<>> => ContainsIgnoreCase(e.from, q.from)
  /\ q.to # <<>> => ContainsIgnoreCase(e.to, q.to)

(* C5: a POP3 fetch that selected N messages and in which the retrieval or *)
(* the parsing of exactly one failed still succeeds; the other N-1 are     *)
(* retrieved and parsed, and those that pass the filters are returned.     *)
C5_OneFailureIsSkipped ==
  \A c \in CallIds :
    (Returned(c) /\ call[c].kind = "fetch" /\ call[c].q.protocol = "POP3"
       /\ call[c].failure = "" /\ Cardinality(call[c].failed) = 1)
      => LET cr == call[c]
         IN /\ cr.result.success
            /\ Len(cr.arr) = Len(cr.ids) - 1
            /\ {e.seq : e \in Range(cr.arr)} = Range(cr.ids) \ cr.failed
            /\ \A e \in Range(cr.arr) :
                 (PassesTime(e, cr.q, cr.today) /\ PassesFromTo(e, cr.q))
                   => e \in Range(cr.result.emails)

C5_Witness ==
  \E c \in CallIds :
    /\ Returned(c) /\ call[c].kind = "fetch" /\ call[c].q.protocol = "POP3"
    /\ call[c].failure = "" /\ Cardinality(call[c].failed) = 1
    /\ Len(call[c].ids) = 2
    /\ call[c].result.success
    /\ Len(call[c].result.emails) = 1

(* C6: with a since that denotes an instant, every message of a successful *)
(* fetch result is dated at or after that instant, for both protocols: of  *)
(* the messages the filter examined, one dated exactly at the instant is   *)
(* kept and an earlier one is not.                                         *)
C6_SinceIsALowerBound ==
  \A c \in CallIds :
    (FetchSucceeded(c) /\ call[c].q.since.given /\ MomentIsValid(call[c].q.since))
      => LET cr == call[c]
             sinceTime == MomentTicks(cr.q.since)
         IN /\ \A e \in Range(cr.result.emails) : e.date >= sinceTime
            /\ \A i \in 1 .. cr.nseen :
                 (/\ cr.arr[i].date >= sinceTime
                  /\ cr.q.protocol = "POP3" => PassesFromTo(cr.arr[i], cr.q))
                   => cr.arr[i] \in Range(cr.result.emails)

C6_Witness ==
  \E c \in CallIds :
    /\ FetchSucceeded(c) /\ call[c].q.since.given /\ MomentIsValid(call[c].q.since)
    /\ \E e \in Range(call[c].result.emails) : e.date = MomentTicks(call[c].q.since)
    /\ \E i \in 1 .. call[c].nseen : call[c].arr[i].date < MomentTicks(call[c].q.since)

(* C7: without a since, every message of a successful fetch result is      *)
(* dated at or after the start of the current day, for both protocols.     *)
C7_TodayIsTheDefaultBound ==
  \A c \in CallIds :
    (FetchSucceeded(c) /\ ~call[c].q.since.given)
      => \A e \in Range(call[c].result.emails) : e.date >= StartOfDay(now)

(* C8: a fetch with limit L returns at most L messages, for either         *)
(* protocol, however many messages the mailbox holds or the search matches.*)
C8_AtMostLimit ==
  \A c \in CallIds :
    FetchSucceeded(c)
      => /\ Len(call[c].result.emails) <= call[c].q.limit
         /\ call[c].result.total <= call[c].q.limit

C8_Witness ==
  \E c \in CallIds :
    /\ FetchSucceeded(c)
    /\ call[c].matched > call[c].q.limit
    /\ Len(call[c].result.emails) = call[c].q.limit

(* C9: the messages of every successful fetch result are ordered newest    *)
(* first: the dates do not increase along the list, for both protocols.    *)
C9_NewestFirst ==
  \A c \in CallIds :
    FetchSucceeded(c)
      => \A i, j \in 1 .. Len(call[c].result.emails) :
           i < j => call[c].result.emails[i].date >= call[c].result.emails[j].date

(* C10: a connection test or fetch request with a missing or malformed     *)
(* required field, or with a since that is not of the form                 *)
(* YYYY/MM/DD HH:mm, is answered with a validation error and no connection *)
(* to a mail server is attempted for it.                                   *)
MalformedRequest(c) ==
  \/ \E key \in RequiredKeys : ~Has(call[c].body, key)
  \/ ~IsEmail(call[c].body.email_address)
  \/ call[c].body.password = ""
  \/ ~IsHostname(call[c].body.imap_server)
  \/ call[c].body.port \notin MinPort .. MaxPort
  \/ ~IsBooleanText(call[c].body.use_ssl)
  \/ Has(call[c].body, "since") /\ call[c].body.since.fmt # "slash"

C10_InvalidRequestIsRefused ==
  \A c \in CallIds :
    (Returned(c) /\ MalformedRequest(c))
      => /\ call[c].result = ValidationError
         /\ call[c].connects = 0
         /\ OwnedBy(c) = {}

C10_Witness ==
  \E c \in CallIds :
    /\ Returned(c) /\ call[c].kind = "fetch"
    /\ Has(call[c].body, "since") /\ call[c].body.since.fmt = "iso"
    /\ call[c].result = ValidationError
    /\ call[c].connects = 0


(* The steps of a call that do not wait for the mail server: simpleParser *)
(* settles, saveEmails settles, or connTimeout / authTimeout of node-imap *)
(* fires while the IMAP connection is being made.                         *)
OwnStep(c) ==
  \/ \E ok \in BOOLEAN : \E m \in call[c].parsing : ImapParseDone(c, m, ok)
  \/ \E ok \in BOOLEAN : PopParseDone(c, ok)
  \/ \E ok \in BOOLEAN : SaveDone(c, ok)
  \/ (call[c].pc = "connectIMAP" /\ ImapError(call[c].own))

(* The connection of the call is open and the call waits for an answer.   *)
AwaitsServer(c) ==
  \/ call[c].pc \in {"openBox", "searchEmails", "fetchEmailDetails", "list", "retr"}
  \/ (call[c].pc = "connectPOP3" /\ conns[call[c].own].st = "connected")

(* C11: every fetchEmails and testConnection call eventually returns even *)
(* if the server stops answering once the connection is open: whenever a  *)
(* call waits on an open connection, a step that does not depend on the   *)
(* server (a parse or a save settling, a timeout firing) is still to come, *)
(* so no call is left with nothing but the server's answer to end it.      *)
C11_NoCallWaitsOnTheServerAlone ==
  \A c \in CallIds :
    (~crashed /\ AwaitsServer(c)) => ENABLED OwnStep(c)


(* Every result a detection request holds, in its response or on the way. *)
AllResults ==
  UNION {{dets[d].results[i] : i \in DOMAIN dets[d].results} : d \in DOMAIN dets}

Responded(d) == dets[d].pc = "done" /\ dets[d].status = 200

(* C12: in every result of detectSingleInvoice the confidence lies in      *)
(* [0, 1] (0 to 100 hundredths) and each of the four partial scores lies   *)
(* in [0, 1] (0 to 10 tenths).                                             *)
C12_ScoresInUnitInterval ==
  \A r \in AllResults :
    /\ r.confidence \in 0 .. 100
    /\ \A part \in {"subject", "sender", "content", "attachment"} :
         r.scores[part] \in 0 .. 10

(* A subject whose raw score (0.5 + 0.6) exceeds 1 has been scored.        *)
C12_Witness ==
  \E r \in AllResults :
    /\ includes(r.email.subject, <<"fa", "piao">>)
    /\ r.scores.subject = 10 /\ r.scores.attachment = 8 /\ r.confidence = 66

(* C13: in every result isInvoice is true if and only if the confidence    *)
(* is at least the threshold 0.3, also in results of the error path.       *)
C13_InvoiceIffAtLeastThreshold ==
  \A r \in AllResults : r.isInvoice <=> (r.confidence >= 30)

(* A response holds a result of the error path next to an invoice.         *)
C13_Witness ==
  \E d \in DOMAIN dets :
    /\ Responded(d)
    /\ \E i, j \in DOMAIN dets[d].results :
         /\ dets[d].results[i].error # "" /\ ~dets[d].results[i].isInvoice
         /\ dets[d].results[j].isInvoice

(* C14: detecting the same message (same id, same content) at two points  *)
(* of a sequence of detect calls yields the same confidence and the same   *)
(* classification.  Stated for a server whose storage is disabled, so that *)
(* no write can fail between the two detections.                           *)
C14_SameMessageSameResult ==
  ~enableLocalStorage =>
    \A d1, d2 \in DOMAIN dets :
      \A i \in DOMAIN dets[d1].results, j \in DOMAIN dets[d2].results :
        (dets[d1].emails[i] = dets[d2].emails[j])
          => /\ dets[d1].results[i].confidence = dets[d2].results[j].confidence
             /\ dets[d1].results[i].isInvoice = dets[d2].results[j].isInvoice

(* C15: the confidence and the classification returned for a message are   *)
(* what a freshly started engine computes from its subject, sender, body   *)
(* and attachments, whatever was detected before.  Stated for a server     *)
(* whose storage is disabled.                                              *)
C15_ResultDependsOnContentAlone ==
  ~enableLocalStorage =>
    \A d \in DOMAIN dets : \A i \in DOMAIN dets[d].results :
      LET fresh == TotalScore(Scores(dets[d].emails[i]))
      IN /\ dets[d].results[i].confidence = fresh
         /\ dets[d].results[i].isInvoice = (fresh >= ConfidenceThreshold)

IsEmptyMessage(email) ==
  email.subject = <<>> /\ email.from = <<>> /\ email.body = <<>>
    /\ email.attachments = <<>>

(* C16: a message with empty subject, empty sender, empty body and no      *)
(* attachments gets confidence exactly 0 and is not an invoice.            *)
C16_EmptyMessageScoresZero ==
  \A d \in DOMAIN dets : \A i \in DOMAIN dets[d].results :
    IsEmptyMessage(dets[d].emails[i])
      => dets[d].results[i].confidence = 0 /\ ~dets[d].results[i].isInvoice

(* An empty message has been detected after an invoice of the same batch.  *)
C16_Witness ==
  \E d \in DOMAIN dets : \E i, j \in DOMAIN dets[d].results :
    /\ i < j
    /\ dets[d].results[i].isInvoice
    /\ IsEmptyMessage(dets[d].emails[j])
    /\ dets[d].results[j].email = dets[d].emails[j]

CarriesPdf(email) ==
  \E k \in DOMAIN email.attachments :
    \/ includes(toLowerCase(email.attachments[k].contentType), <<"p", "d", "f">>)
    \/ endsWith(toLowerCase(email.attachments[k].filename), <<".", "p", "d", "f">>)

(* C17: a message whose subject contains the word for invoice (Chinese or  *)
(* English), that carries a PDF attachment and has no sender and no        *)
(* content signal, gets a confidence of at least 0.5 x 0.5 + 0.2 x 0.8,    *)
(* that is 41 hundredths.  Stated for a server whose storage is disabled.  *)
C17_SubjectAndPdfLowerBound ==
  ~enableLocalStorage =>
    \A d \in DOMAIN dets : \A i \in DOMAIN dets[d].results :
      LET email == dets[d].emails[i]
      IN (/\ \/ includes(email.subject, <<"fa", "piao">>)
             \/ includes(toLowerCase(email.subject), <<"i", "n", "v", "o", "i", "c", "e">>)
          /\ CarriesPdf(email)
          /\ analyzeSender(email.from) = 0
          /\ analyzeContent(email.body) = 0)
         => dets[d].results[i].confidence >= 5 * 5 + 2 * 8

(* C18: when the detection of one message throws, its result has           *)
(* confidence 0, is not an invoice and carries an error note; the rest of  *)
(* the batch is detected, so a response holds exactly one result per       *)
(* submitted message, in the order of submission.                          *)
C18_ErrorIsOneResultOfTheBatch ==
  /\ \A r \in AllResults : r.error # "" => r.confidence = 0 /\ ~r.isInvoice
  /\ \A d \in DOMAIN dets :
       Responded(d)
         => /\ Len(dets[d].results) = Len(dets[d].emails)
            /\ \A i \in DOMAIN dets[d].emails :
                 dets[d].results[i].emailId = dets[d].emails[i].id

(* The write of the first message of a batch failed and the second message *)
(* was detected after it.                                                  *)
C18_Witness ==
  \E d \in DOMAIN dets :
    /\ Responded(d)
    /\ Len(dets[d].emails) = 2
    /\ dets[d].results[1].error = "write failed"
    /\ dets[d].results[1].email = dets[d].emails[1]
    /\ dets[d].results[2].error = ""
    /\ dets[d].results[2].email = dets[d].emails[2]


(* C19: with persistence enabled, a failed write to durable storage leaves *)
(* the result of the operation as it was in memory: the fetch returns      *)
(* success with the fetched messages, the detection returns the confidence *)
(* and the classification it computed for the message.                     *)
C19_WriteFailureKeepsTheResult ==
  /\ \A c \in CallIds :
       (Returned(c) /\ call[c].kind = "fetch" /\ call[c].failure = "storage")
         => call[c].result.success /\ call[c].result.emails # <<>>
  /\ \A r \in AllResults :
       r.error = "write failed"
         => /\ r.confidence = TotalScore(Scores(r.email))
            /\ r.isInvoice = (TotalScore(Scores(r.email)) >= ConfidenceThreshold)

(* C20: with persistence disabled neither a fetch nor a detection writes  *)
(* to durable storage, no operation fails because of the storage, and the  *)
(* result of an invoice carries a record with an id.                       *)
C20_DisabledStorageIsNoError ==
  ~enableLocalStorage =>
    /\ files = 0 /\ invoices = <<>>
    /\ \A c \in CallIds : call[c].failure # "storage" /\ call[c].pc # "saveEmails"
    /\ \A d \in DOMAIN dets : dets[d].pc # "saveInvoiceInfo"
    /\ \A r \in AllResults :
         /\ r.error = ""
         /\ r.isInvoice => (r.invoiceInfo # <<>> /\ r.invoiceInfo[1].id >= 1)

(* With the storage disabled a fetch has returned its messages and a       *)
(* detection has returned an invoice.                                      *)
C20_Witness ==
  /\ ~enableLocalStorage
  /\ FetchSucceeded(1) /\ call[1].result.emails # <<>>
  /\ \E r \in AllResults : r.isInvoice /\ r.invoiceInfo[1].id >= 1

(* C21: a result carries an invoice record exactly when it classifies the  *)
(* message as an invoice, and the record names the id of the detected      *)
(* message and the confidence of the result.                               *)
C21_RecordIffInvoice ==
  \A d \in DOMAIN dets : \A i \in DOMAIN dets[d].results :
    LET r == dets[d].results[i]
    IN /\ (r.invoiceInfo # <<>>) <=> r.isInvoice
       /\ r.invoiceInfo # <<>> =>
            /\ r.invoiceInfo[1].emailId = dets[d].emails[i].id
            /\ r.invoiceInfo[1].confidenceScore = r.confidence

(* One batch has returned an invoice with its record and a message that    *)
(* is no invoice, the latter not from the cache.                           *)
C21_Witness ==
  \E d \in DOMAIN dets : \E i, j \in DOMAIN dets[d].results :
    /\ dets[d].results[i].isInvoice
    /\ dets[d].results[i].invoiceInfo # <<>>
    /\ dets[d].results[i].confidence >= ConfidenceThreshold
    /\ ~dets[d].results[j].isInvoice
    /\ dets[d].results[j].email = dets[d].emails[j]
    /\ dets[d].results[j].invoiceInfo = <<>>
(* C22: the first read of the keyword configuration after an update        *)
(* returns the configuration of that update.                               *)
C22_ReadReturnsTheUpdate ==
  (keywords.updated # <<>> /\ keywords.returned # <<>>)
    => keywords.returned = keywords.updated
LastSet(key) == {l \in probe.last : l.key = key}

ExpiryOf(l) ==
  l.at + (IF l.ttlMinutes # 0 THEN l.ttlMinutes ELSE DefaultTtlMinutes) * TicksPerMinute

(* C23: after set(key, v, ttl) with a positive ttl at time t and no later  *)
(* set, delete or clear of the key, a get of the key returns v at every    *)
(* time up to t + ttl and absent after it, swept or not.                   *)
C23_LiveUntilExpiry ==
  \A o \in Range(probe.op) : \A l \in LastSet(o.key) :
    (o.kind = "get" /\ l.ttlMinutes > 0 /\ ~l.removed)
      => o.value = IF o.at <= ExpiryOf(l) THEN <<l.data>> ELSE <<>>

(* A get at the expiry time has returned the value and a get after it,     *)
(* with the expired entry still in the map, has returned absent.           *)
C23_Witness ==
  \E o \in Range(probe.op) : \E l \in LastSet(o.key) :
    /\ o.kind = "get" /\ l.ttlMinutes > 0 /\ ~l.removed
    /\ o.at > ExpiryOf(l)
    /\ o.value = <<>>
    /\ \E e \in cache : e.key # o.key /\ now > e.expireTime

(* C24: a get returns absent or the value of the most recent set of the    *)
(* key, and the entry of a key is that of its most recent set: its value   *)
(* and its expiry time.                                                    *)
C24_LastWriterWins ==
  /\ \A o \in Range(probe.op) :
       (o.kind = "get" /\ o.value # <<>>)
         => \E l \in LastSet(o.key) : o.value = <<l.data>>
  /\ \A e \in cache : \E l \in LastSet(e.key) :
       e.data = l.data /\ e.expireTime = ExpiryOf(l)
  /\ \A e1, e2 \in cache : e1.key = e2.key => e1 = e2

(* One operation has read the value another one set over the first one's   *)
(* earlier value, at a later time.                                         *)
C24_Witness ==
  \E o \in Range(probe.op) : \E l \in LastSet(o.key) :
    /\ o.kind = "get" /\ o.value = <<l.data>>
    /\ l.at > NowStart /\ o.at > l.at
    /\ \E e \in cache : e.key = o.key

(* C25: delete(key) returns true exactly when a get of the key would have  *)
(* returned an entry at that moment, and from the delete to the next set   *)
(* of the key a get returns absent.                                        *)
C25_DeleteTellsWhatGetWouldReturn ==
  \A o \in Range(probe.op) :
    /\ o.kind = "delete" => (o.flag <=> o.value # <<>>)
    /\ o.kind = "get" => \A l \in LastSet(o.key) : l.removed => o.value = <<>>

(* C34: a pass of the periodic sweep removes every entry whose expiry time *)
(* has passed and leaves every unexpired entry in the map, with the value  *)
(* and the expiry time of its set.                                         *)
C34_SweepRemovesExpiredOnly ==
  \A o \in Range(probe.op) :
    o.kind = "cleanup"
      => /\ \A e \in cache : ~(o.at > e.expireTime)
         /\ \A l \in probe.last :
              (~l.removed /\ ~(o.at > ExpiryOf(l)))
                => [key |-> l.key, data |-> l.data, expireTime |-> ExpiryOf(l)] \in cache

(* A sweep has removed an entry and left one that expires at this very     *)
(* moment.                                                                 *)
C34_Witness ==
  \E o \in Range(probe.op) :
    /\ o.kind = "cleanup" /\ o.flag
    /\ \E e \in cache : e.expireTime = o.at

(* C26: two fetch requests that differ in the address, the folder, the     *)
(* limit or one of the filters from, to and since have different cache     *)
(* keys.  Stated for the request a call is serving and every other request *)
(* the service accepts.                                                    *)
C26_KeysSeparateRequests ==
  \A c \in CallIds : \A body \in FetchBodies :
    LET q1 == call[c].q
        q2 == ValidatedValue(body)
    IN (/\ call[c].kind = "fetch" /\ call[c].pc \notin {"idle", "closed"}
        /\ emailQuerySchema(call[c].body) /\ emailQuerySchema(body)
        /\ \/ q1.email_address # q2.email_address
           \/ q1.mail_box # q2.mail_box
           \/ q1.limit # q2.limit
           \/ q1.from # q2.from
           \/ q1.to # q2.to
           \/ q1.since # q2.since)
       => FetchKey(q1) # FetchKey(q2)
(* C27: the statistics of the empty list are zeros and an empty date       *)
(* range; those of a non-empty list are the number of records, the sum of  *)
(* the amounts, the mean of the confidence scores, and the earliest and    *)
(* the latest date among the records that carry one.  A date is earlier    *)
(* than another if both are calendar dates and its time is smaller.        *)
C27_StatsOfTheList ==
  \A call_ \in Range(stats) :
    LET list == call_.list
        result == call_.result
        n == Len(list)
        RECURSIVE Total(_, _)
        Total(f, i) ==
          IF i = 0 THEN 0
          ELSE Total(f, i - 1) + (IF list[i][f] = <<>> THEN 0 ELSE list[i][f][1])
        carried == {list[i].invoiceDate[1] :
                      i \in {k \in 1 .. n : list[k].invoiceDate # <<>>}}
        Earlier(a, b) == a.valid /\ b.valid /\ a.time < b.time
    IN IF n = 0
       THEN /\ result.totalCount = 0 /\ result.totalAmount = 0
            /\ result.averageConfidence.sum = 0
            /\ result.dateRange = [start |-> <<>>, end |-> <<>>]
       ELSE /\ result.totalCount = n
            /\ result.totalAmount = Total("amount", n)
            /\ result.averageConfidence.sum * n
                 = Total("confidenceScore", n) * result.averageConfidence.count
            /\ IF carried = {}
               THEN result.dateRange = [start |-> <<>>, end |-> <<>>]
               ELSE /\ result.dateRange.start # <<>> /\ result.dateRange.end # <<>>
                    /\ result.dateRange.start[1] \in carried
                    /\ result.dateRange.end[1] \in carried
                    /\ \A x \in carried : ~Earlier(x, result.dateRange.start[1])
                    /\ \A x \in carried : ~Earlier(result.dateRange.end[1], x)
(* C28: the password of a request is spelled out in no log entry, no cache *)
(* key and no cached value.  (The saved files hold the parsed messages and *)
(* the account id, the invoice records what extractInvoiceInfo builds.)    *)
C28_PasswordStaysInMemory ==
  \A c \in CallIds :
    (call[c].pc \notin {"idle", "closed"} /\ Has(call[c].body, "password")
       /\ call[c].body.password # "")
      => /\ call[c].body.password \notin call[c].logs
         /\ \A e \in cache :
              /\ call[c].body.password
                   \notin {e.key.email, e.key.server, e.key.mailbox, e.data.note}

(* C29: within one POP3 fetch the commands are serialized: no command and  *)
(* no quit is called out of turn; LIST and RETR are pending only on a      *)
(* client whose login was accepted; a RETR is pending only when every      *)
(* earlier message of the fetch was answered (parsed or skipped); and      *)
(* after quit no command is left unanswered.                               *)
C29_CommandsSerialized ==
  \A x \in ConnIds :
    conns[x].proto = "POP3" =>
      /\ ~conns[x].overrun
      /\ conns[x].cmd.op \in {"list", "retr"} => conns[x].st = "authed"
      /\ conns[x].cmd.op = "retr" =>
           LET cr == call[conns[x].cmd.by]
           IN /\ cr.pc = "retr" /\ cr.idx \in 1 .. Len(cr.ids)
              /\ conns[x].cmd.n = cr.ids[cr.idx]
              /\ Len(cr.arr) + Cardinality(cr.failed) = cr.idx - 1
      /\ conns[x].ended => conns[x].cmd.op = "none"

C29_Witness ==
  \E c \in CallIds :
    /\ FetchSucceeded(c) /\ call[c].q.protocol = "POP3"
    /\ Len(call[c].ids) = 2 /\ Len(call[c].arr) = 2
    /\ conns[call[c].own].ended /\ ~conns[call[c].own].overrun

(* C30: a successful POP3 fetch in which every retrieval and every parse   *)
(* succeeded returns min(k, limit) messages, k being the number of         *)
(* messages of the maildrop that pass the time, sender and recipient       *)
(* filters of the request.                                                 *)
C30_LimitAfterFiltering ==
  \A c \in CallIds :
    (FetchSucceeded(c) /\ call[c].q.protocol = "POP3" /\ call[c].failure = ""
       /\ call[c].failed = {} /\ call[c].lconn # NoConn
       /\ Len(conns[call[c].lconn].maildrop) = call[c].matched)
      => LET cr == call[c]
             maildrop == conns[cr.lconn].maildrop
             all == [i \in 1 .. Len(maildrop) |->
                       parseEmailMessage([seq |-> i, hdr |-> maildrop[i]], now)]
             k == Len(FilterPOP3(all, cr.q, now))
             limit == IF cr.q.limit # 0 THEN cr.q.limit ELSE DefaultLimit
         IN Len(cr.result.emails) = IF k < limit THEN k ELSE limit

(* C31: for every message of a batch, detectInvoices puts it in its        *)
(* invoices list exactly when detectSingleInvoice classifies it as an      *)
(* invoice.                                                                *)
C31_BatchAgreesWithSingle ==
  \A b \in Range(batch) : \A i \in DOMAIN b.emails :
    LET email == b.emails[i]
        single == DetectionResult(email, Scores(email), TotalScore(Scores(email)), <<>>)
    IN (\E j \in DOMAIN b.result.invoices : b.result.invoices[j].id = email.id)
         <=> single.isInvoice

(* C32: after a detection the isInvoice flag of a message is true exactly  *)
(* when its confidence was at or above the configured threshold, whatever  *)
(* the flag was before; stated for the messages of a detectInvoices call.  *)
C32_FlagIsTheVerdict ==
  \A b \in Range(batch) : \A i \in DOMAIN b.emails :
    (b.result.emails[i].isInvoice = <<TRUE>>)
      <=> TotalScore(Scores(b.emails[i])) >= b.threshold

(* C33: a fetchEmails call that repeats the parameters of an earlier call  *)
(* whose cached result has not expired opens no connection and returns     *)
(* that result.                                                            *)
C33_RepeatIsServedFromCache ==
  \A c1, c2 \in CallIds :
    (/\ c1 < c2 /\ Returned(c1) /\ call[c1].kind = "fetch"
     /\ call[c2].kind = "fetch" /\ call[c2].pc \notin {"idle", "closed"}
     /\ call[c2].q = call[c1].q
     /\ \E e \in CacheLive(St, FetchKey(call[c1].q)) : e.data = call[c1].result)
      => /\ call[c2].connects = 0
         /\ Returned(c2) => call[c2].result = call[c1].result

(* C35: over any sequence of detection requests at most one invoice record *)
(* is saved for a message: no two saved records belong to the same         *)
(* message.                                                                *)
C35_OneRecordPerMessage ==
  \A i, j \in DOMAIN invoices : invoices[i].emailId = invoices[j].emailId => i = j

(* C36: for every message of a request the detect endpoint accepted, the   *)
(* attachment score is 0 when the attachment list is empty and at least    *)
(* 0.8 when the list contains a PDF, by content type or by file name.      *)
C36_PdfScoresAtLeastEightTenths ==
  \A d \in DOMAIN dets :
    (dets[d].route = "detect-invoices" /\ dets[d].status = 200)
      => \A i \in DOMAIN dets[d].emails :
           LET email == dets[d].emails[i]
               IsPdf(a) ==
                 \/ includes(toLowerCase(a.contentType), <<"p", "d", "f">>)
                 \/ endsWith(toLowerCase(a.filename), <<".", "p", "d", "f">>)
           IN /\ email.attachments = <<>> => analyzeAttachments(email) = 0
              /\ (\E k \in DOMAIN email.attachments : IsPdf(email.attachments[k]))
                   => analyzeAttachments(email) >= 8

(* C37: in a successful IMAP fetch every message of the limited match set  *)
(* that was parsed successfully is in the returned result, unless the      *)
(* re-check of since removed it, whatever the order of the parse           *)
(* completions and the 'end' event of the fetch.                           *)
C37_ParsedMeansReturned ==
  \A c \in CallIds :
    (FetchSucceeded(c) /\ call[c].q.protocol = "IMAP")
      => \A e \in Range(call[c].arr) :
           \/ e \in Range(call[c].result.emails)
           \/ /\ call[c].q.since.given
              /\ ~(MomentIsValid(call[c].q.since)
                     /\ isSameOrAfter(e.date, MomentTicks(call[c].q.since)))

(* C38: in every fetch result, when it is returned and at every later      *)
(* moment, total is the number of messages of its emails list: in the      *)
(* hands of the caller and in the cache.                                   *)
C38_TotalIsTheLength ==
  /\ \A c \in CallIds :
       (Returned(c) /\ call[c].kind = "fetch")
         => call[c].result.total = Len(call[c].result.emails)
  /\ \A x \in cache :
       x.key.op = "email_fetch" => x.data.total = Len(x.data.emails)

(* C39: every since of a request the validation accepted denotes a valid   *)
(* instant, and every message a successful fetch of such a request returns *)
(* is dated at or after it: no accepted since leaves the messages          *)
(* unfiltered by time.                                                     *)
C39_AcceptedSinceIsAnInstant ==
  \A c \in CallIds :
    (call[c].kind = "fetch" /\ call[c].pc \notin {"idle", "closed"}
       /\ emailQuerySchema(call[c].body) /\ call[c].q.since.given)
      => /\ MomentIsValid(call[c].q.since)
         /\ FetchSucceeded(c)
              => \A e \in Range(call[c].result.emails) :
                   e.date >= MomentTicks(call[c].q.since)
====
